---- MODULE Spec2Model ----
(***************************************************************************)
(* State-machine model of the customs administration backend               *)
(* (src/backend/server.py): the Control workflow (create_control,          *)
(* update_compliance_checks, update_non_compliance, declarant_validation)  *)
(* and the Document workflow (create_document, update_document,            *)
(* submit_document) over the MongoDB collections they read and write.      *)
(*                                                                         *)
(* A request handler is a coroutine: every "await" of a store call hands   *)
(* control to the other requests.  A step of the model applies the store   *)
(* call a handler awaits and runs the handler to its next "await" or to    *)
(* its response, so a handler with n awaited store calls takes n steps and *)
(* the steps of other requests run between them.  The requests that await  *)
(* a store call are kept in "requests", each with the parameters of its    *)
(* handler, what it has read and the arguments of the call it awaits.      *)
(*                                                                         *)
(* The parameters of a handler and the outcome of the PDF renderer are the *)
(* parameters of its action.  An optional value (Optional[T] in the        *)
(* pydantic models) is the empty tuple for None and the one-element tuple  *)
(* <<v>> for a value v.  The id of a stored document (uuid4 in the code)   *)
(* is the position at which it is inserted.                                *)
(***************************************************************************)
EXTENDS Integers, Sequences, FiniteSets, TLC

VARIABLES
    controls,      \* db.controls: the stored Control documents, in insertion order
    declarations,  \* db.declarations
    fines,         \* db.fines
    documents,     \* db.documents
    templates,     \* db.templates: the stored DocumentTemplates, in insertion order
    clock,         \* what datetime.now(timezone.utc) returns
    resp,          \* the last HTTP response: the handler that answered and its status code
    requests       \* the requests whose handler awaits a store call

store == <<controls, declarations, fines, documents, templates>>

vars == <<controls, declarations, fines, documents, templates, clock, resp, requests>>

(***************************************************************************)
(* Bounds of the model.                                                    *)
(***************************************************************************)
MaxClock == 4          \* the Control handlers read the clock while it is below it
MaxDocumentClock == 3  \* the Document handlers read the clock while it is below it
MaxControls == 1       \* number of Controls created in a behaviour, and the ids the requests address
MaxDocuments == 1      \* number of Documents created in a behaviour
MaxTemplates == 2      \* number of DocumentTemplates stored or being stored at a time
MaxAccessClock == 3    \* the handlers read the clock while it is below it, in the access specifications

\* the connections of the clients: as many requests await a store call at a time
Connections == {"c1", "c2"}

(***************************************************************************)
(* HTTP status codes of the responses.                                     *)
(***************************************************************************)
HTTP_200_OK == 200
HTTP_400_BAD_REQUEST == 400
HTTP_403_FORBIDDEN == 403
HTTP_404_NOT_FOUND == 404
HTTP_500_INTERNAL_SERVER_ERROR == 500

None == <<>>
Some(v) == <<v>>

(***************************************************************************)
(* Users and roles (UserRole).                                             *)
(***************************************************************************)
DRAFTING_AGENT == "drafting_agent"
CONTROL_OFFICER == "control_officer"
VALIDATION_OFFICER == "validation_officer"
MOA == "moa"

Users == {"da1", "da2", "co1", "co2", "vo", "moa"}

role(u) ==
    CASE u \in {"da1", "da2"} -> DRAFTING_AGENT
      [] u \in {"co1", "co2"} -> CONTROL_OFFICER
      [] u = "vo" -> VALIDATION_OFFICER
      [] OTHER -> MOA

full_name(u) ==
    CASE u = "da1" -> "Drafting Agent One"
      [] u = "da2" -> "Drafting Agent Two"
      [] u = "co1" -> "Control Officer One"
      [] u = "co2" -> "Control Officer Two"
      [] u = "vo" -> "Validation Officer"
      [] OTHER -> "Management Admin"

\* mutant of require_role: every role is let through
require_role_any(u, required_roles) == TRUE

\* require_role(required_roles): the dependency lets the request through
require_role(u, required_roles) == role(u) \in required_roles

(***************************************************************************)
(* Enumerations.                                                           *)
(***************************************************************************)
ControlStatus ==
    {"initiated", "in_progress", "compliance_check", "non_compliant",
     "certificate_generated", "declarant_validation", "completed", "fine_issued"}

ComplianceStatus == {"compliant", "non_compliant", "pending"}

NonComplianceType == {"species", "origin", "value", "classification", "documentation"}

DocumentStatus == {"draft", "under_control", "under_validation", "validated", "rejected"}

(***************************************************************************)
(* The store: find_one, insert_one, update_one with $set and $push.        *)
(***************************************************************************)
\* the positions of the documents of a collection whose "id" is id
Matches(coll, id) == {i \in 1..Len(coll) : coll[i].id = id}

\* mutant of find_one: the filter is dropped and the first document returned
find_one_unfiltered(coll, id) == IF Len(coll) = 0 THEN 0 ELSE 1

\* find_one({"id": id}): the position of the first match, 0 when there is none
find_one(coll, id) ==
    IF Matches(coll, id) = {} THEN 0
    ELSE CHOOSE i \in Matches(coll, id) : \A j \in Matches(coll, id) : i <= j

\* db.declarations.find_one({"declaration_id": d})
find_declaration(d) ==
    LET m == {i \in 1..Len(declarations) : declarations[i].declaration_id = d}
    IN  IF m = {} THEN 0 ELSE CHOOSE i \in m : \A j \in m : i <= j

\* insert_one(doc): the document is stored after the stored ones; its uuid4 is
\* its position
insert_one(coll, doc) == Append(coll, [doc EXCEPT !.id = Len(coll) + 1])

\* {"$set": update_dict}: the fields named in update_dict take its values
set_fields(doc, update_dict) ==
    [f \in DOMAIN doc |-> IF f \in DOMAIN update_dict THEN update_dict[f] ELSE doc[f]]

\* mutant of update_one: the history is replaced by the new entry, not pushed to
update_one_replacing_history(coll, i, update_dict, action) ==
    [coll EXCEPT ![i] = [set_fields(@, update_dict) EXCEPT !.history = <<action>>]]

\* mutant of update_one: the updated document is stored under a new id
update_one_with_new_id(coll, i, update_dict, action) ==
    [coll EXCEPT ![i] =
        [set_fields(@, update_dict) EXCEPT !.history = Append(@, action),
                                           !.id = Len(coll) + 1]]

\* update_one({"id": ...}, {"$set": update_dict, "$push": {"history": action}})
\* applied to the document at position i
update_one(coll, i, update_dict, action) ==
    [coll EXCEPT ![i] =
        [set_fields(@, update_dict) EXCEPT !.history = Append(@, action)]]

\* ActionHistory(action=..., user_id=..., user_name=..., details=...)
ActionHistory(action, u, details) ==
    [action |-> action, user_id |-> u, user_name |-> full_name(u),
     timestamp |-> clock, details |-> details]

(***************************************************************************)
(* Requests and responses.                                                 *)
(***************************************************************************)
\* what a handler that awaits a find has not read yet, and the arguments of a
\* store call that takes none from the handler
Nothing == [nothing |-> TRUE]

\* the connections that no suspended handler answers on
free_connections == {c \in Connections : \A q \in requests : q.conn # c}

\* the connection a new request arrives on
connection == CHOOSE c \in Connections : free_connections # {} => c \in free_connections

\* a handler at an "await": the connection it answers on (two requests with
\* the same route, caller and parameters are two coroutines), its route, its
\* caller and its parameters, the store call it awaits (pc), what its find
\* returned, and the arguments it built for its store calls (update_dict and
\* action are its local variables until it returns)
Request(op, u, args, pc, found, call) ==
    [conn |-> connection, op |-> op, user |-> u, args |-> args, pc |-> pc,
     found |-> found, call |-> call]

\* the requests of a route with given caller and parameters
Awaiting(op, u, args) ==
    {r \in requests : r.op = op /\ r.user = u /\ r.args = args}

\* the handler reaches its first "await"
Await(r) ==
    /\ free_connections # {}
    /\ requests' = requests \cup {r}

\* the store call of r is applied and its handler reaches the "await" of next
Continue(r, pc, found, call) ==
    requests' = (requests \ {r}) \cup {[r EXCEPT !.pc = pc, !.found = found, !.call = call]}

\* the handler of r returns or raises
Finish(r) == requests' = requests \ {r}

Respond(op, code) == resp' = [op |-> op, code |-> code]

\* the handler raises HTTPException(code) before its first store call changed
\* anything
Refuse(op, code) ==
    /\ Respond(op, code)
    /\ UNCHANGED <<store, clock, requests>>

ListResponse(op, u, body) ==
    resp' = [op |-> op, code |-> HTTP_200_OK, user |-> u, body |-> body]

ViewResponse(op, code, u, id, body) ==
    resp' = [op |-> op, code |-> code, user |-> u, id |-> id, body |-> body]

(***************************************************************************)
(* Control workflow.                                                       *)
(***************************************************************************)
\* mutant of ComplianceCheckItem: the default status is compliant
ComplianceCheckItem_compliant(item) ==
    [item |-> item, status |-> "compliant", notes |-> None,
     checked_by |-> None, checked_at |-> None]

\* ComplianceCheckItem(item=...)
ComplianceCheckItem(item) ==
    [item |-> item, status |-> "pending", notes |-> None,
     checked_by |-> None, checked_at |-> None]

default_compliance_checks ==
    << ComplianceCheckItem("Verification identite importateur"),
       ComplianceCheckItem("Controle coherence declaration/marchandises"),
       ComplianceCheckItem("Verification origine marchandises"),
       ComplianceCheckItem("Controle valeur declaree"),
       ComplianceCheckItem("Verification classement tarifaire"),
       ComplianceCheckItem("Controle des documents d'accompagnement"),
       ComplianceCheckItem("Verification du regime douanier") >>

\* get_sydonia_declaration: the mock data of a declaration id; weight is the
\* float 250.5, written in tenths
mock_data(declaration_id) ==
    [declaration_id |-> declaration_id,
     importer_name |-> "SARL Import Export NC",
     importer_address |-> "123 Rue de la Paix, Noumea",
     goods_description |-> "Materiel informatique",
     origin_country |-> "France",
     value_cfr |-> 45000,
     customs_regime |-> "Importation definitive",
     declaration_date |-> "2024-01-15",
     customs_office |-> "Noumea-Port",
     tariff_code |-> "8471.30.00",
     weight |-> 2505,
     quantity |-> 10]

\* Declaration(**declaration_data)
Declaration(declaration_data) ==
    [id |-> 0,
     declaration_id |-> declaration_data.declaration_id,
     importer_name |-> declaration_data.importer_name,
     importer_address |-> declaration_data.importer_address,
     goods_description |-> declaration_data.goods_description,
     origin_country |-> declaration_data.origin_country,
     value_cfr |-> declaration_data.value_cfr,
     customs_regime |-> declaration_data.customs_regime,
     declaration_date |-> declaration_data.declaration_date,
     customs_office |-> declaration_data.customs_office,
     tariff_code |-> Some(declaration_data.tariff_code),
     weight |-> Some(declaration_data.weight),
     quantity |-> Some(declaration_data.quantity),
     created_at |-> clock,
     sydonia_data |-> None]

\* Control(declaration_id=..., control_officer_id=..., ...) with its first history entry
Control(u, declaration_id) ==
    [id |-> 0,
     declaration_id |-> declaration_id,
     control_officer_id |-> u,
     control_officer_name |-> full_name(u),
     status |-> "in_progress",
     compliance_checks |-> default_compliance_checks,
     non_compliance_type |-> None,
     non_compliance_details |-> None,
     fiscal_impact |-> None,
     applicable_regulation |-> None,
     declarant_acknowledged |-> FALSE,
     certificate_path |-> None,
     pv_generated |-> FALSE,
     fine_decision |-> None,
     created_at |-> clock,
     updated_at |-> clock,
     history |-> << ActionHistory("control_initiated", u,
                                  [declaration_id |-> declaration_id]) >>]

ControlRoles == {CONTROL_OFFICER, VALIDATION_OFFICER}

\* create_control up to "await db.declarations.insert_one(...)": the role
\* check, the mock Sydonia data and the Declaration built from it
create_control_start(u, declaration_id) ==
    IF ~require_role(u, ControlRoles)
    THEN Refuse("create_control", HTTP_403_FORBIDDEN)
    ELSE /\ Await(Request("create_control", u, [declaration_id |-> declaration_id],
                          "declarations.insert_one", Nothing,
                          [declaration |-> Declaration(mock_data(declaration_id))]))
         /\ UNCHANGED <<store, clock, resp>>

\* create_control from "await db.declarations.insert_one(...)" to
\* "await db.controls.insert_one(...)": the Declaration is stored, the Control
\* and its first history entry are built
create_control_insert_declaration(r) ==
    /\ r.pc = "declarations.insert_one"
    /\ clock < MaxClock
    /\ declarations' = insert_one(declarations, r.call.declaration)
    /\ Continue(r, "controls.insert_one", Nothing,
                [control |-> Control(r.user, r.args.declaration_id)])
    /\ clock' = clock + 1
    /\ UNCHANGED <<controls, fines, documents, templates, resp>>

\* create_control from "await db.controls.insert_one(...)" to "return control"
create_control_insert_control(r) ==
    /\ r.pc = "controls.insert_one"
    /\ controls' = insert_one(controls, r.call.control)
    /\ Finish(r)
    /\ Respond("create_control", HTTP_200_OK)
    /\ UNCHANGED <<declarations, fines, documents, templates, clock>>

\* POST /controls
create_control(u, declaration_id) ==
    \/ create_control_start(u, declaration_id)
    \/ \E r \in Awaiting("create_control", u, [declaration_id |-> declaration_id]) :
            \/ create_control_insert_declaration(r)
            \/ create_control_insert_control(r)

\* mutant of updated_checks: every item is stamped, pending or not
updated_checks_all(u, compliance_checks) ==
    [i \in 1..Len(compliance_checks) |->
        [compliance_checks[i] EXCEPT !.checked_by = Some(full_name(u)),
                                     !.checked_at = Some(clock)]]

\* mutant of updated_checks: the pending items are left out of the stored list
updated_checks_without_pending(u, compliance_checks) ==
    SelectSeq([i \in 1..Len(compliance_checks) |->
                  [compliance_checks[i] EXCEPT !.checked_by = Some(full_name(u)),
                                               !.checked_at = Some(clock)]],
              LAMBDA check : check.status # "pending")

\* the loop over update_data.compliance_checks: every item that is not pending
\* is stamped with the caller and the time
updated_checks(u, compliance_checks) ==
    [i \in 1..Len(compliance_checks) |->
        IF compliance_checks[i].status # "pending"
        THEN [compliance_checks[i] EXCEPT !.checked_by = Some(full_name(u)),
                                          !.checked_at = Some(clock)]
        ELSE compliance_checks[i]]

non_compliant_items(checks) ==
    {i \in 1..Len(checks) : checks[i].status = "non_compliant"}

\* mutant of new_status: the stored checklists are looked at, not the submitted one
new_status_from_stored(checks) ==
    IF \E i \in 1..Len(controls) : non_compliant_items(controls[i].compliance_checks) # {}
    THEN "non_compliant" ELSE "compliance_check"

\* mutant of new_status: only the first item is looked at
new_status_first_item(checks) ==
    IF Len(checks) > 0 /\ checks[1].status = "non_compliant"
    THEN "non_compliant" ELSE "compliance_check"

new_status(checks) ==
    IF non_compliant_items(checks) # {} THEN "non_compliant" ELSE "compliance_check"

\* the arguments of the update_one of update_compliance_checks: the stamped
\* checks, the status they give and the history entry
compliance_update(u, compliance_checks) ==
    LET checks == updated_checks(u, compliance_checks)
    IN  [update_dict |-> [compliance_checks |-> checks,
                          status |-> new_status(checks),
                          updated_at |-> clock],
         action |-> ActionHistory("compliance_check_updated", u,
                        [non_compliant_count |-> Cardinality(non_compliant_items(checks))])]

\* update_compliance_checks up to "await db.controls.update_one(...)": the
\* role check, find_one and its 404, the stamping of the checks, the new
\* status and the history entry
update_compliance_checks_find_one(u, control_id, compliance_checks) ==
    LET i == find_one(controls, control_id)
    IN  IF ~require_role(u, ControlRoles)
        THEN Refuse("update_compliance_checks", HTTP_403_FORBIDDEN)
        ELSE IF i = 0
        THEN Refuse("update_compliance_checks", HTTP_404_NOT_FOUND)
        ELSE /\ clock < MaxClock
             /\ Await(Request("update_compliance_checks", u,
                              [control_id |-> control_id,
                               compliance_checks |-> compliance_checks],
                              "controls.update_one", controls[i],
                              compliance_update(u, compliance_checks)))
             /\ clock' = clock + 1
             /\ UNCHANGED <<store, resp>>

\* update_compliance_checks from "await db.controls.update_one(...)" to the
\* "await db.controls.find_one(...)" that follows it: the update is applied to
\* the Control as it is stored now
update_compliance_checks_update_one(r) ==
    /\ r.pc = "controls.update_one"
    /\ controls' = update_one(controls, find_one(controls, r.args.control_id),
                              r.call.update_dict, r.call.action)
    /\ Continue(r, "controls.find_one", r.found, r.call)
    /\ UNCHANGED <<declarations, fines, documents, templates, clock, resp>>

\* update_compliance_checks from its second find_one to
\* "return Control(**updated_control)"
update_compliance_checks_return(r) ==
    /\ r.pc = "controls.find_one"
    /\ ViewResponse("update_compliance_checks", HTTP_200_OK, r.user, r.args.control_id,
                    controls[find_one(controls, r.args.control_id)])
    /\ Finish(r)
    /\ UNCHANGED <<store, clock>>

\* PUT /controls/{control_id}/compliance
update_compliance_checks(u, control_id, compliance_checks) ==
    \/ update_compliance_checks_find_one(u, control_id, compliance_checks)
    \/ \E r \in Awaiting("update_compliance_checks", u,
                         [control_id |-> control_id,
                          compliance_checks |-> compliance_checks]) :
            \/ update_compliance_checks_update_one(r)
            \/ update_compliance_checks_return(r)

\* mutant of generate_certificate_of_visit_pdf: the exception is swallowed and
\* the path of the temporary file returned
generate_certificate_swallowing(pdf_ok) ==
    [raised |-> FALSE, path |-> "certificate_of_visit.pdf"]

\* generate_certificate_of_visit_pdf: the path of the temporary file, or
\* HTTPException(500) when write_pdf raises
generate_certificate_of_visit_pdf(pdf_ok) ==
    IF pdf_ok THEN [raised |-> FALSE, path |-> "certificate_of_visit.pdf"]
    ELSE [raised |-> TRUE, path |-> ""]

\* generate_payment_notice_pdf: the path of the temporary file, or
\* HTTPException(500) when write_pdf raises
generate_payment_notice_pdf(pdf_ok) ==
    IF pdf_ok THEN [raised |-> FALSE, path |-> "payment_notice.pdf"]
    ELSE [raised |-> TRUE, path |-> ""]

\* mutant of non_compliance_update: the certificate path is not added to the
\* update_dict
non_compliance_update_no_certificate(update_data, certificate_path) ==
    [non_compliance_type |-> Some(update_data.non_compliance_type),
     non_compliance_details |-> Some(update_data.non_compliance_details),
     fiscal_impact |-> Some(update_data.fiscal_impact),
     applicable_regulation |-> Some(update_data.applicable_regulation),
     status |-> "certificate_generated",
     updated_at |-> clock]

\* mutant of non_compliance_update: fiscal_impact is left out of the update_dict
non_compliance_update_no_impact(update_data, certificate_path) ==
    [non_compliance_type |-> Some(update_data.non_compliance_type),
     non_compliance_details |-> Some(update_data.non_compliance_details),
     applicable_regulation |-> Some(update_data.applicable_regulation),
     status |-> "certificate_generated",
     updated_at |-> clock,
     certificate_path |-> Some(certificate_path)]

\* the update_dict of update_non_compliance, with the certificate path
non_compliance_update(update_data, certificate_path) ==
    [non_compliance_type |-> Some(update_data.non_compliance_type),
     non_compliance_details |-> Some(update_data.non_compliance_details),
     fiscal_impact |-> Some(update_data.fiscal_impact),
     applicable_regulation |-> Some(update_data.applicable_regulation),
     status |-> "certificate_generated",
     updated_at |-> clock,
     certificate_path |-> Some(certificate_path)]

\* update_non_compliance up to "await db.declarations.find_one(...)": the role
\* check, the find_one of the Control and its 404
update_non_compliance_find_one(u, control_id, update_data) ==
    LET i == find_one(controls, control_id)
    IN  IF ~require_role(u, ControlRoles)
        THEN Refuse("update_non_compliance", HTTP_403_FORBIDDEN)
        ELSE IF i = 0
        THEN Refuse("update_non_compliance", HTTP_404_NOT_FOUND)
        ELSE /\ Await(Request("update_non_compliance", u,
                              [control_id |-> control_id, update_data |-> update_data],
                              "declarations.find_one", controls[i], Nothing))
             /\ UNCHANGED <<store, clock, resp>>

\* update_non_compliance from the find_one of the Declaration to
\* "await db.controls.update_one(...)": its 404, the update_dict, the
\* certificate and the history entry; pdf_ok: write_pdf does not raise
update_non_compliance_find_declaration(r, pdf_ok) ==
    LET pdf == generate_certificate_of_visit_pdf(pdf_ok)
    IN  /\ r.pc = "declarations.find_one"
        /\ IF find_declaration(r.found.declaration_id) = 0
           THEN /\ Respond("update_non_compliance", HTTP_404_NOT_FOUND)
                /\ Finish(r)
                /\ UNCHANGED <<store, clock>>
           ELSE IF pdf.raised
           THEN \* generate_certificate_of_visit_pdf raises HTTPException(500)
                /\ Respond("update_non_compliance", HTTP_500_INTERNAL_SERVER_ERROR)
                /\ Finish(r)
                /\ UNCHANGED <<store, clock>>
           ELSE /\ clock < MaxClock
                /\ Continue(r, "controls.update_one", r.found,
                       [update_dict |-> non_compliance_update(r.args.update_data, pdf.path),
                        action |-> ActionHistory("certificate_generated", r.user,
                            [non_compliance_type |-> r.args.update_data.non_compliance_type])])
                /\ clock' = clock + 1
                /\ UNCHANGED <<store, resp>>

\* update_non_compliance from "await db.controls.update_one(...)" to the
\* "await db.controls.find_one(...)" that follows it: the update is applied to
\* the Control as it is stored now
update_non_compliance_update_one(r) ==
    /\ r.pc = "controls.update_one"
    /\ controls' = update_one(controls, find_one(controls, r.args.control_id),
                              r.call.update_dict, r.call.action)
    /\ Continue(r, "controls.find_one", r.found, r.call)
    /\ UNCHANGED <<declarations, fines, documents, templates, clock, resp>>

\* update_non_compliance from its last find_one to
\* "return Control(**updated_control)"
update_non_compliance_return(r) ==
    /\ r.pc = "controls.find_one"
    /\ ViewResponse("update_non_compliance", HTTP_200_OK, r.user, r.args.control_id,
                    controls[find_one(controls, r.args.control_id)])
    /\ Finish(r)
    /\ UNCHANGED <<store, clock>>

\* PUT /controls/{control_id}/non-compliance; pdf_ok: write_pdf does not raise
update_non_compliance(u, control_id, update_data, pdf_ok) ==
    \/ update_non_compliance_find_one(u, control_id, update_data)
    \/ \E r \in Awaiting("update_non_compliance", u,
                         [control_id |-> control_id, update_data |-> update_data]) :
            \/ update_non_compliance_find_declaration(r, pdf_ok)
            \/ update_non_compliance_update_one(r)
            \/ update_non_compliance_return(r)

\* CustomsFine(control_id=..., declaration_id=..., amount=..., regulation_code=...)
\* passes pydantic's validation: amount is a float and regulation_code a str, not None
CustomsFineIsValid(control) ==
    /\ control.fiscal_impact # None
    /\ control.applicable_regulation # None

\* mutant of CustomsFine: the amount is a quarter of the fiscal impact (a fine rate)
CustomsFine_with_rate(control) ==
    [id |-> 0,
     control_id |-> control.id,
     declaration_id |-> control.declaration_id,
     amount |-> control.fiscal_impact[1] \div 4,
     regulation_code |-> control.applicable_regulation[1],
     status |-> "pending",
     sydonia_lo_number |-> Some(<<"LO", clock, control.id>>),
     payment_notice_path |-> None,
     created_at |-> clock]

\* the CustomsFine declarant_validation builds from the Control it read, with
\* its LO number
CustomsFine(control) ==
    [id |-> 0,
     control_id |-> control.id,
     declaration_id |-> control.declaration_id,
     amount |-> control.fiscal_impact[1],
     regulation_code |-> control.applicable_regulation[1],
     status |-> "pending",
     sydonia_lo_number |-> Some(<<"LO", clock, control.id>>),
     payment_notice_path |-> None,
     created_at |-> clock]

\* mutant of declarant_update: declarant_acknowledged is left out of the update_dict
declarant_update_without_acknowledgement(validation_data) ==
    [fine_decision |-> Some(validation_data.fine_decision),
     pv_generated |-> TRUE,
     updated_at |-> clock,
     status |-> IF validation_data.fine_decision = "pass_over"
                THEN "completed" ELSE "fine_issued"]

\* the update_dict of declarant_validation, with the status of the branch taken
declarant_update(validation_data) ==
    [declarant_acknowledged |-> TRUE,
     fine_decision |-> Some(validation_data.fine_decision),
     pv_generated |-> TRUE,
     updated_at |-> clock,
     status |-> IF validation_data.fine_decision = "pass_over"
                THEN "completed" ELSE "fine_issued"]

\* the action tag of the history entry of declarant_validation
declarant_action(validation_data) ==
    IF validation_data.fine_decision = "pass_over"
    THEN "control_completed_pass_over" ELSE "customs_fine_initiated"

\* mutant of not_acknowledged: the acknowledgement is not checked
not_acknowledged_unchecked(validation_data) == FALSE

\* "if not validation_data.acknowledged": the request is refused
not_acknowledged(validation_data) == ~validation_data.acknowledged

\* mutant of creates_fine: the fine is created on every branch
creates_fine_always(validation_data) == TRUE

\* the branch of declarant_validation that creates a CustomsFine
creates_fine(validation_data) == validation_data.fine_decision # "pass_over"

\* the arguments of the update_one of declarant_validation
declarant_call(u, validation_data) ==
    [update_dict |-> declarant_update(validation_data),
     action |-> [ActionHistory("declarant_validated", u,
                     [decision |-> validation_data.fine_decision])
                 EXCEPT !.action = declarant_action(validation_data)]]

\* declarant_validation up to its first "await" after the find_one of the
\* Control: the role check, the 404 and the 400, the update_dict and the
\* history entry; on the branch that creates a fine the CustomsFine is built
\* from the Control that find_one returned and the Declaration is awaited,
\* on the other branch the update_one is awaited
declarant_validation_find_one(u, control_id, validation_data) ==
    LET i == find_one(controls, control_id)
        args == [control_id |-> control_id, validation_data |-> validation_data]
    IN  IF ~require_role(u, ControlRoles)
        THEN Refuse("declarant_validation", HTTP_403_FORBIDDEN)
        ELSE IF i = 0
        THEN Refuse("declarant_validation", HTTP_404_NOT_FOUND)
        ELSE IF not_acknowledged(validation_data)
        THEN Refuse("declarant_validation", HTTP_400_BAD_REQUEST)
        ELSE IF ~creates_fine(validation_data)
        THEN /\ clock < MaxClock
             /\ Await(Request("declarant_validation", u, args, "controls.update_one",
                              controls[i], declarant_call(u, validation_data)))
             /\ clock' = clock + 1
             /\ UNCHANGED <<store, resp>>
        ELSE IF ~CustomsFineIsValid(controls[i])
        THEN \* CustomsFine(...) raises a pydantic ValidationError
             Refuse("declarant_validation", HTTP_500_INTERNAL_SERVER_ERROR)
        ELSE /\ clock < MaxClock
             /\ Await(Request("declarant_validation", u, args, "declarations.find_one",
                              controls[i],
                              [fine |-> CustomsFine(controls[i])]
                                  @@ declarant_call(u, validation_data)))
             /\ clock' = clock + 1
             /\ UNCHANGED <<store, resp>>

\* declarant_validation from the find_one of the Declaration to
\* "await db.fines.insert_one(...)": the payment notice is generated;
\* pdf_ok: write_pdf does not raise
declarant_validation_find_declaration(r, pdf_ok) ==
    LET pdf == generate_payment_notice_pdf(pdf_ok)
    IN  /\ r.pc = "declarations.find_one"
        /\ IF find_declaration(r.found.declaration_id) = 0 \/ pdf.raised
           THEN \* Declaration(**None) raises, or generate_payment_notice_pdf
                \* raises HTTPException(500)
                /\ Respond("declarant_validation", HTTP_500_INTERNAL_SERVER_ERROR)
                /\ Finish(r)
                /\ UNCHANGED <<store, clock>>
           ELSE /\ Continue(r, "fines.insert_one", r.found,
                       [r.call EXCEPT !.fine.payment_notice_path = Some(pdf.path)])
                /\ UNCHANGED <<store, clock, resp>>

\* declarant_validation from "await db.fines.insert_one(...)" to
\* "await db.controls.update_one(...)": the fine is stored
declarant_validation_insert_one(r) ==
    /\ r.pc = "fines.insert_one"
    /\ fines' = insert_one(fines, r.call.fine)
    /\ Continue(r, "controls.update_one", r.found,
                [update_dict |-> r.call.update_dict, action |-> r.call.action])
    /\ UNCHANGED <<controls, declarations, documents, templates, clock, resp>>

\* declarant_validation from "await db.controls.update_one(...)" to its
\* response: the update is applied to the Control as it is stored now
declarant_validation_update_one(r) ==
    /\ r.pc = "controls.update_one"
    /\ controls' = update_one(controls, find_one(controls, r.args.control_id),
                              r.call.update_dict, r.call.action)
    /\ Finish(r)
    /\ Respond("declarant_validation", HTTP_200_OK)
    /\ UNCHANGED <<declarations, fines, documents, templates, clock>>

\* POST /controls/{control_id}/declarant-validation; pdf_ok: write_pdf does not raise
declarant_validation(u, control_id, validation_data, pdf_ok) ==
    \/ declarant_validation_find_one(u, control_id, validation_data)
    \/ \E r \in Awaiting("declarant_validation", u,
                         [control_id |-> control_id, validation_data |-> validation_data]) :
            \/ declarant_validation_find_declaration(r, pdf_ok)
            \/ declarant_validation_insert_one(r)
            \/ declarant_validation_update_one(r)

(***************************************************************************)
(* Document workflow.                                                      *)
(***************************************************************************)
\* Document(**document_data.dict(), created_by=..., created_by_name=...) with its
\* first history entry
Document(u, document_data) ==
    [id |-> 0,
     title |-> document_data.title,
     document_type |-> document_data.document_type,
     status |-> "draft",
     template_id |-> document_data.template_id,
     content |-> document_data.content,
     sydonia_data |-> None,
     created_by |-> u,
     created_by_name |-> full_name(u),
     assigned_to |-> None,
     assigned_to_name |-> None,
     created_at |-> clock,
     updated_at |-> clock,
     history |-> << ActionHistory("created", u,
                                  [document_type |-> document_data.document_type]) >>]

\* mutant of template_missing: the template is not looked up
template_missing_unchecked(document_data) == FALSE

\* "if not template": db.templates.find_one({"id": template_id}) finds nothing
template_missing(document_data) == find_one(templates, document_data.template_id) = 0

\* create_document up to "await db.documents.insert_one(...)": the role check,
\* the find_one of the template and its 404, the Document and its first
\* history entry
create_document_find_one(u, document_data) ==
    IF ~require_role(u, {DRAFTING_AGENT})
    THEN Refuse("create_document", HTTP_403_FORBIDDEN)
    ELSE IF template_missing(document_data)
    THEN Refuse("create_document", HTTP_404_NOT_FOUND)
    ELSE /\ clock < MaxDocumentClock
         /\ Len(documents) + Cardinality({r \in requests : r.op = "create_document"})
                < MaxDocuments
         /\ Await(Request("create_document", u, [document_data |-> document_data],
                          "documents.insert_one",
                          [template_id |-> document_data.template_id],
                          [document |-> Document(u, document_data)]))
         /\ clock' = clock + 1
         /\ UNCHANGED <<store, resp>>

\* create_document from "await db.documents.insert_one(...)" to
\* "return document"
create_document_insert_one(r) ==
    /\ r.pc = "documents.insert_one"
    /\ documents' = insert_one(documents, r.call.document)
    /\ Finish(r)
    /\ Respond("create_document", HTTP_200_OK)
    /\ UNCHANGED <<controls, declarations, fines, templates, clock>>

\* POST /documents
create_document(u, document_data) ==
    \/ create_document_find_one(u, document_data)
    \/ \E r \in Awaiting("create_document", u, [document_data |-> document_data]) :
            create_document_insert_one(r)

\* the permission check of update_document: the request is refused
update_forbidden(u, doc) ==
    /\ role(u) = DRAFTING_AGENT
    /\ doc.created_by # u
    /\ doc.status # "draft"

\* mutant of document_update_dict: the null fields of the payload are applied too
document_update_dict_with_nulls(update_data) ==
    [k \in DOMAIN update_data \cup {"updated_at"} |->
        IF k = "updated_at" THEN clock
        ELSE IF k = "assigned_to" \/ update_data[k] = None THEN update_data[k]
        ELSE update_data[k][1]]

\* {k: v for k, v in update_data.dict().items() if v is not None}, then updated_at
document_update_dict(update_data) ==
    [k \in {f \in DOMAIN update_data : update_data[f] # None} \cup {"updated_at"} |->
        IF k = "updated_at" THEN clock
        ELSE IF k = "assigned_to" THEN update_data[k]
        ELSE update_data[k][1]]

\* update_document up to "await db.documents.update_one(...)": find_one and
\* its 404, the permission check on the Document that find_one returned, the
\* update_dict and the history entry
update_document_find_one(u, document_id, update_data) ==
    LET i == find_one(documents, document_id)
    IN  IF i = 0
        THEN Refuse("update_document", HTTP_404_NOT_FOUND)
        ELSE IF update_forbidden(u, documents[i])
        THEN Refuse("update_document", HTTP_403_FORBIDDEN)
        ELSE /\ clock < MaxDocumentClock
             /\ Await(Request("update_document", u,
                              [document_id |-> document_id, update_data |-> update_data],
                              "documents.update_one", documents[i],
                              [update_dict |-> document_update_dict(update_data),
                               action |-> ActionHistory("updated", u,
                                              document_update_dict(update_data))]))
             /\ clock' = clock + 1
             /\ UNCHANGED <<store, resp>>

\* update_document from "await db.documents.update_one(...)" to the
\* "await db.documents.find_one(...)" that follows it: the update is applied
\* to the Document as it is stored now
update_document_update_one(r) ==
    /\ r.pc = "documents.update_one"
    /\ documents' = update_one(documents, find_one(documents, r.args.document_id),
                               r.call.update_dict, r.call.action)
    /\ Continue(r, "documents.find_one", r.found, r.call)
    /\ UNCHANGED <<controls, declarations, fines, templates, clock, resp>>

\* update_document from its second find_one to "return Document(**updated_doc)"
update_document_return(r) ==
    /\ r.pc = "documents.find_one"
    /\ ViewResponse("update_document", HTTP_200_OK, r.user, r.args.document_id,
                    documents[find_one(documents, r.args.document_id)])
    /\ Finish(r)
    /\ UNCHANGED <<store, clock>>

\* PUT /documents/{document_id}
update_document(u, document_id, update_data) ==
    \/ update_document_find_one(u, document_id, update_data)
    \/ \E r \in Awaiting("update_document", u,
                         [document_id |-> document_id, update_data |-> update_data]) :
            \/ update_document_update_one(r)
            \/ update_document_return(r)

\* mutant of not_draft: the status check is missing
not_draft_unchecked(doc) == FALSE

\* "if doc_obj.status != DocumentStatus.DRAFT": the request is refused
not_draft(doc) == doc.status # "draft"

\* the update submit_document writes
submit_update ==
    [status |-> "under_control", updated_at |-> clock]

\* submit_document up to "await db.documents.update_one(...)": the role check,
\* find_one and its 404, the checks of the creator and of the status on the
\* Document that find_one returned, and the history entry
submit_document_find_one(u, document_id) ==
    LET i == find_one(documents, document_id)
    IN  IF ~require_role(u, {DRAFTING_AGENT})
        THEN Refuse("submit_document", HTTP_403_FORBIDDEN)
        ELSE IF i = 0
        THEN Refuse("submit_document", HTTP_404_NOT_FOUND)
        ELSE IF documents[i].created_by # u
        THEN Refuse("submit_document", HTTP_403_FORBIDDEN)
        ELSE IF not_draft(documents[i])
        THEN Refuse("submit_document", HTTP_400_BAD_REQUEST)
        ELSE /\ clock < MaxDocumentClock
             /\ Await(Request("submit_document", u, [document_id |-> document_id],
                              "documents.update_one", documents[i],
                              [update_dict |-> submit_update,
                               action |-> ActionHistory("submitted_for_control", u, None)]))
             /\ clock' = clock + 1
             /\ UNCHANGED <<store, resp>>

\* submit_document from "await db.documents.update_one(...)" to its response:
\* the update is applied to the Document as it is stored now
submit_document_update_one(r) ==
    /\ r.pc = "documents.update_one"
    /\ documents' = update_one(documents, find_one(documents, r.args.document_id),
                               r.call.update_dict, r.call.action)
    /\ Finish(r)
    /\ Respond("submit_document", HTTP_200_OK)
    /\ UNCHANGED <<controls, declarations, fines, templates, clock>>

\* POST /documents/{document_id}/submit
submit_document(u, document_id) ==
    \/ submit_document_find_one(u, document_id)
    \/ \E r \in Awaiting("submit_document", u, [document_id |-> document_id]) :
            submit_document_update_one(r)

(***************************************************************************)
(* Reads: the list and view handlers.  Their response carries the caller   *)
(* and what the handler returned.                                          *)
(***************************************************************************)
\* cursor.to_list(length): at most the first length results
to_list(results, length) ==
    IF Len(results) <= length THEN results ELSE SubSeq(results, 1, length)

\* mutant of documents_query: no role-based filtering
documents_query_unfiltered(u, doc) == TRUE

\* the query of get_documents: the stored Document matches it
documents_query(u, doc) ==
    IF role(u) = DRAFTING_AGENT THEN doc.created_by = u
    ELSE IF role(u) = CONTROL_OFFICER
    THEN doc.status = "under_control" \/ doc.assigned_to = Some(u)
    ELSE TRUE

\* GET /documents
get_documents(u) ==
    /\ ListResponse("get_documents", u,
            to_list(SelectSeq(documents, LAMBDA doc : documents_query(u, doc)), 1000))
    /\ UNCHANGED <<store, clock, requests>>

\* the permission check of get_document and download_document_pdf: the
\* request is refused
view_forbidden(u, doc) ==
    /\ role(u) = DRAFTING_AGENT
    /\ doc.created_by # u

\* mutant of get_document: a successful view appends a "viewed" entry to the
\* history of the Document
get_document_logging_view(u, document_id) ==
    LET i == find_one(documents, document_id)
    IN  IF i = 0
        THEN /\ ViewResponse("get_document", HTTP_404_NOT_FOUND, u, document_id, None)
             /\ UNCHANGED <<store, clock, requests>>
        ELSE IF view_forbidden(u, documents[i])
        THEN /\ ViewResponse("get_document", HTTP_403_FORBIDDEN, u, document_id, None)
             /\ UNCHANGED <<store, clock, requests>>
        ELSE /\ ViewResponse("get_document", HTTP_200_OK, u, document_id, documents[i])
             /\ documents' = [documents EXCEPT
                    ![i].history = Append(@, ActionHistory("viewed", u, None))]
             /\ UNCHANGED <<controls, declarations, fines, templates, clock, requests>>

\* GET /documents/{document_id}
get_document(u, document_id) ==
    LET i == find_one(documents, document_id)
    IN  /\ IF i = 0
           THEN ViewResponse("get_document", HTTP_404_NOT_FOUND, u, document_id, None)
           ELSE IF view_forbidden(u, documents[i])
           THEN ViewResponse("get_document", HTTP_403_FORBIDDEN, u, document_id, None)
           ELSE ViewResponse("get_document", HTTP_200_OK, u, document_id, documents[i])
        /\ UNCHANGED <<store, clock, requests>>

\* generate_document_pdf: the path of the temporary file, or HTTPException(500)
\* when write_pdf raises
generate_document_pdf(pdf_ok) ==
    IF pdf_ok THEN [raised |-> FALSE, path |-> "document.pdf"]
    ELSE [raised |-> TRUE, path |-> ""]

\* download_document_pdf up to "await db.templates.find_one(...)": the
\* find_one of the Document, its 404 and the permission check
download_document_pdf_find_one(u, document_id) ==
    LET i == find_one(documents, document_id)
    IN  IF i = 0
        THEN /\ ViewResponse("download_document_pdf", HTTP_404_NOT_FOUND, u, document_id, None)
             /\ UNCHANGED <<store, clock, requests>>
        ELSE IF view_forbidden(u, documents[i])
        THEN /\ ViewResponse("download_document_pdf", HTTP_403_FORBIDDEN, u, document_id, None)
             /\ UNCHANGED <<store, clock, requests>>
        ELSE /\ Await(Request("download_document_pdf", u, [document_id |-> document_id],
                              "templates.find_one", documents[i], Nothing))
             /\ UNCHANGED <<store, clock, resp>>

\* download_document_pdf from the find_one of the template to its
\* FileResponse: the 404 of the template and the rendering; pdf_ok: write_pdf
\* does not raise
download_document_pdf_find_template(r, pdf_ok) ==
    LET pdf == generate_document_pdf(pdf_ok)
    IN  /\ r.pc = "templates.find_one"
        /\ IF find_one(templates, r.found.template_id) = 0
           THEN ViewResponse("download_document_pdf", HTTP_404_NOT_FOUND,
                             r.user, r.args.document_id, None)
           ELSE IF pdf.raised
           THEN ViewResponse("download_document_pdf", HTTP_500_INTERNAL_SERVER_ERROR,
                             r.user, r.args.document_id, None)
           ELSE ViewResponse("download_document_pdf", HTTP_200_OK,
                             r.user, r.args.document_id, Some(pdf.path))
        /\ Finish(r)
        /\ UNCHANGED <<store, clock>>

\* GET /documents/{document_id}/pdf; pdf_ok: write_pdf does not raise
download_document_pdf(u, document_id, pdf_ok) ==
    \/ download_document_pdf_find_one(u, document_id)
    \/ \E r \in Awaiting("download_document_pdf", u, [document_id |-> document_id]) :
            download_document_pdf_find_template(r, pdf_ok)

\* mutant of controls_query: no role-based filtering
controls_query_unfiltered(u, control) == TRUE

\* the query of get_controls: the stored Control matches it
controls_query(u, control) ==
    IF role(u) = CONTROL_OFFICER THEN control.control_officer_id = u ELSE TRUE

\* GET /controls
get_controls(u) ==
    /\ ListResponse("get_controls", u,
            to_list(SelectSeq(controls, LAMBDA control : controls_query(u, control)), 1000))
    /\ UNCHANGED <<store, clock, requests>>

\* GET /controls/{control_id}
get_control(u, control_id) ==
    LET i == find_one(controls, control_id)
    IN  /\ IF i = 0
           THEN ViewResponse("get_control", HTTP_404_NOT_FOUND, u, control_id, None)
           ELSE IF role(u) = CONTROL_OFFICER /\ controls[i].control_officer_id # u
           THEN ViewResponse("get_control", HTTP_403_FORBIDDEN, u, control_id, None)
           ELSE ViewResponse("get_control", HTTP_200_OK, u, control_id, controls[i])
        /\ UNCHANGED <<store, clock, requests>>

\* mutant of certificate_missing: the certificate path is not looked at
certificate_missing_unchecked(control) == FALSE

\* "if not control.get("certificate_path")": no certificate was generated
certificate_missing(control) == control.certificate_path = None

\* GET /controls/{control_id}/certificate: the FileResponse carries the stored path
download_certificate(u, control_id) ==
    LET i == find_one(controls, control_id)
    IN  /\ IF i = 0
           THEN ViewResponse("download_certificate", HTTP_404_NOT_FOUND, u, control_id, None)
           ELSE IF certificate_missing(controls[i])
           THEN ViewResponse("download_certificate", HTTP_404_NOT_FOUND, u, control_id, None)
           ELSE ViewResponse("download_certificate", HTTP_200_OK, u, control_id,
                             controls[i].certificate_path)
        /\ UNCHANGED <<store, clock, requests>>

\* GET /fines/{fine_id}/payment-notice: the FileResponse carries the stored path
download_payment_notice(u, fine_id) ==
    LET k == find_one(fines, fine_id)
    IN  /\ IF k = 0
           THEN ViewResponse("download_payment_notice", HTTP_404_NOT_FOUND, u, fine_id, None)
           ELSE IF fines[k].payment_notice_path = None
           THEN ViewResponse("download_payment_notice", HTTP_404_NOT_FOUND, u, fine_id, None)
           ELSE ViewResponse("download_payment_notice", HTTP_200_OK, u, fine_id,
                             fines[k].payment_notice_path)
        /\ UNCHANGED <<store, clock, requests>>

(***************************************************************************)
(* Templates.                                                              *)
(***************************************************************************)
\* the values uuid4() returns, in the order in which they are taken
Uuids == <<"uuid1", "uuid2", "uuid3", "uuid4", "uuid5", "uuid6">>

\* the templates that the suspended requests are to store
PendingTemplates(r) ==
    IF r.op = "initialize_templates" THEN r.call.templates
    ELSE IF r.op \in {"create_template", "update_template"} THEN << r.call.template >>
    ELSE << >>

\* the values uuid4() can still return: it returns none of the template ids
\* that a stored template, a stored Document or a suspended request holds
fresh_uuids ==
    LET held_ids ==
            {templates[i].id : i \in 1..Len(templates)}
            \cup {documents[i].template_id : i \in 1..Len(documents)}
            \cup UNION {{PendingTemplates(r)[k].id : k \in 1..Len(PendingTemplates(r))} :
                            r \in requests}
            \cup UNION {{r.call.document.template_id} :
                            r \in {q \in requests : q.op = "create_document"}}
    IN  SelectSeq(Uuids, LAMBDA x : x \notin held_ids)

\* str(uuid.uuid4()), the n-th one of a step
uuid4(n) == fresh_uuids[n]

\* the number of templates stored or to be stored by the suspended requests
TemplatesCount ==
    Len(templates) +
    Cardinality({<<r, k>> \in requests \X (1..MaxTemplates) :
                    r.op \in {"create_template", "initialize_templates"}
                    /\ k <= Len(PendingTemplates(r))})

\* DocumentTemplate(**body): id and created_at take their defaults when the
\* body carries none
DocumentTemplate(template_data) ==
    [id |-> IF template_data.id = None THEN uuid4(1) ELSE template_data.id[1],
     name |-> template_data.name,
     document_type |-> template_data.document_type,
     fields |-> template_data.fields,
     checklist |-> template_data.checklist,
     created_at |-> clock]

\* create_template up to "await db.templates.insert_one(...)": the role check
\* and the DocumentTemplate parsed from the body
create_template_start(u, template_data) ==
    IF ~require_role(u, {VALIDATION_OFFICER, MOA})
    THEN Refuse("create_template", HTTP_403_FORBIDDEN)
    ELSE /\ clock < MaxClock
         /\ TemplatesCount < MaxTemplates
         /\ Len(fresh_uuids) >= 1
         /\ Await(Request("create_template", u, [template_data |-> template_data],
                          "templates.insert_one", Nothing,
                          [template |-> DocumentTemplate(template_data)]))
         /\ clock' = clock + 1
         /\ UNCHANGED <<store, resp>>

\* create_template from "await db.templates.insert_one(...)" to
\* "return template_data"
create_template_insert_one(r) ==
    /\ r.pc = "templates.insert_one"
    /\ templates' = Append(templates, r.call.template)
    /\ Finish(r)
    /\ ViewResponse("create_template", HTTP_200_OK, r.user, r.call.template.id,
                    Some(r.call.template))
    /\ UNCHANGED <<controls, declarations, fines, documents, clock>>

\* POST /templates
create_template(u, template_data) ==
    \/ create_template_start(u, template_data)
    \/ \E r \in Awaiting("create_template", u, [template_data |-> template_data]) :
            create_template_insert_one(r)

\* update_one({"id": id}, {"$set": template_dict}): every field of the first
\* match, its id included, is set to the body's
set_template(coll, id, template_dict) ==
    LET i == find_one(coll, id)
    IN  IF i = 0 THEN coll ELSE [coll EXCEPT ![i] = template_dict]

\* update_template up to "await db.templates.update_one(...)": the role check
\* and the DocumentTemplate parsed from the body
update_template_start(u, template_id, template_data) ==
    IF ~require_role(u, {MOA})
    THEN Refuse("update_template", HTTP_403_FORBIDDEN)
    ELSE /\ clock < MaxClock
         /\ Len(fresh_uuids) >= 1
         /\ Await(Request("update_template", u,
                          [template_id |-> template_id, template_data |-> template_data],
                          "templates.update_one", Nothing,
                          [template |-> DocumentTemplate(template_data)]))
         /\ clock' = clock + 1
         /\ UNCHANGED <<store, resp>>

\* update_template from "await db.templates.update_one(...)" to
\* "await db.templates.find_one(...)"
update_template_update_one(r) ==
    /\ r.pc = "templates.update_one"
    /\ templates' = set_template(templates, r.args.template_id, r.call.template)
    /\ Continue(r, "templates.find_one", r.found, r.call)
    /\ UNCHANGED <<controls, declarations, fines, documents, clock, resp>>

\* update_template from the trailing find_one to its response: the 404 when
\* no template has the id of the path (any more)
update_template_return(r) ==
    LET i == find_one(templates, r.args.template_id)
    IN  /\ r.pc = "templates.find_one"
        /\ Finish(r)
        /\ IF i = 0
           THEN ViewResponse("update_template", HTTP_404_NOT_FOUND, r.user,
                             r.args.template_id, None)
           ELSE ViewResponse("update_template", HTTP_200_OK, r.user,
                             r.args.template_id, Some(templates[i]))
        /\ UNCHANGED <<store, clock>>

\* PUT /templates/{template_id}
update_template(u, template_id, template_data) ==
    \/ update_template_start(u, template_id, template_data)
    \/ \E r \in Awaiting("update_template", u,
                        [template_id |-> template_id, template_data |-> template_data]) :
            \/ update_template_update_one(r)
            \/ update_template_return(r)

\* a field of a template: {"name": ..., "type": ..., "required": True, "label": ...}
template_field(name, type, label) ==
    [name |-> name, type |-> type, required |-> TRUE, label |-> label]

\* initialize_templates.default_templates
default_templates ==
    << [id |-> uuid4(1),
        name |-> "Rapport de contrôle douanier",
        document_type |-> "customs_report",
        fields |-> << template_field("declaration_id", "text", "N° Déclaration"),
                      template_field("importer_name", "text", "Nom importateur"),
                      template_field("control_date", "date", "Date contrôle"),
                      template_field("findings", "textarea", "Constatations"),
                      [name |-> "decision", type |-> "select", required |-> TRUE,
                       label |-> "Décision",
                       options |-> << "Conforme", "Non-conforme", "Complément d'enquête" >>] >>,
        checklist |-> << "Vérification identité importateur",
                         "Contrôle cohérence déclaration/marchandises",
                         "Vérification origine marchandises",
                         "Contrôle valeur déclarée",
                         "Vérification classement tarifaire" >>,
        created_at |-> clock],
       [id |-> uuid4(2),
        name |-> "Acte administratif de saisie",
        document_type |-> "administrative_act",
        fields |-> << template_field("seizure_date", "date", "Date saisie"),
                      template_field("location", "text", "Lieu"),
                      template_field("goods_description", "textarea", "Description marchandises"),
                      template_field("legal_basis", "text", "Base légale"),
                      template_field("estimated_value", "number", "Valeur estimée") >>,
        checklist |-> << "Présence témoin",
                         "Inventaire détaillé marchandises",
                         "Photos prises",
                         "Notification intéressé",
                         "Mise sous séquestre" >>,
        created_at |-> clock] >>

\* initialize_templates, a route without authentication (its caller is
\* "anyone"), from "await db.templates.count_documents({})" to the
\* first "await db.templates.insert_one(...)": nothing is done when a template
\* is stored
initialize_templates_count_documents ==
    IF Len(templates) > 0
    THEN /\ Respond("initialize_templates", HTTP_200_OK)
         /\ UNCHANGED <<store, clock, requests>>
    ELSE /\ clock < MaxClock
         /\ Len(fresh_uuids) >= 2
         /\ TemplatesCount + Len(default_templates) <= MaxTemplates
         /\ Await(Request("initialize_templates", "anyone", Nothing,
                          "templates.insert_one", [count |-> Len(templates)],
                          [templates |-> default_templates]))
         /\ clock' = clock + 1
         /\ UNCHANGED <<store, resp>>

\* initialize_templates from one "await db.templates.insert_one(...)" to the
\* next one, or to its response after the last one
initialize_templates_insert_one(r) ==
    /\ r.pc = "templates.insert_one"
    /\ templates' = Append(templates, Head(r.call.templates))
    /\ IF Len(r.call.templates) > 1
       THEN /\ Continue(r, "templates.insert_one", r.found,
                        [templates |-> Tail(r.call.templates)])
            /\ UNCHANGED resp
       ELSE /\ Finish(r)
            /\ Respond("initialize_templates", HTTP_200_OK)
    /\ UNCHANGED <<controls, declarations, fines, documents, clock>>

\* POST /init/templates
initialize_templates ==
    \/ initialize_templates_count_documents
    \/ \E r \in Awaiting("initialize_templates", "anyone", Nothing) :
            initialize_templates_insert_one(r)

\* db.documents.count_documents({"template_id": template_id})
documents_using_template(template_id) ==
    Cardinality({i \in 1..Len(documents) : documents[i].template_id = template_id})

\* delete_template up to "await db.templates.delete_one(...)": the role check,
\* count_documents and its 400
delete_template_count_documents(u, template_id) ==
    IF ~require_role(u, {MOA, VALIDATION_OFFICER})
    THEN Refuse("delete_template", HTTP_403_FORBIDDEN)
    ELSE IF documents_using_template(template_id) > 0
    THEN Refuse("delete_template", HTTP_400_BAD_REQUEST)
    ELSE /\ Await(Request("delete_template", u, [template_id |-> template_id],
                          "templates.delete_one",
                          [count |-> documents_using_template(template_id)], Nothing))
         /\ UNCHANGED <<store, clock, resp>>

\* delete_one({"id": id}): the first match is removed
delete_one(coll, id) ==
    LET i == find_one(coll, id)
    IN  IF i = 0 THEN coll
        ELSE SubSeq(coll, 1, i - 1) \o SubSeq(coll, i + 1, Len(coll))

\* delete_template from "await db.templates.delete_one(...)" to its response:
\* the 404 when nothing was deleted
delete_template_delete_one(r) ==
    /\ r.pc = "templates.delete_one"
    /\ Finish(r)
    /\ IF find_one(templates, r.args.template_id) = 0
       THEN /\ Respond("delete_template", HTTP_404_NOT_FOUND)
            /\ UNCHANGED <<store, clock>>
       ELSE /\ templates' = delete_one(templates, r.args.template_id)
            /\ Respond("delete_template", HTTP_200_OK)
            /\ UNCHANGED <<controls, declarations, fines, documents, clock>>

\* DELETE /templates/{template_id}
delete_template(u, template_id) ==
    \/ delete_template_count_documents(u, template_id)
    \/ \E r \in Awaiting("delete_template", u, [template_id |-> template_id]) :
            delete_template_delete_one(r)

(***************************************************************************)
(* The requests the model sends.                                           *)
(***************************************************************************)
\* the callers of the Control workflow: an officer and a caller without the role
ControlActors == {"co1", "da1"}
\* the callers of the Document workflow: two drafting agents and an officer
DocumentActors == {"da1", "da2", "vo"}

ControlIds == 1..MaxControls
DocumentIds == 1..MaxDocuments
DeclarationIds == {"D1"}
FineIds == 1..MaxControls
TemplateIds == {"tpl1", "tpl9"}

\* the seeded checklist with every item in one status
all_checks(s) ==
    [i \in 1..Len(default_compliance_checks) |->
        [default_compliance_checks[i] EXCEPT !.status = s]]

\* ComplianceCheckUpdate payloads: empty, all pending, all compliant, one item
\* non-compliant among compliant ones, and a two-item list
one_non_compliant == [all_checks("compliant") EXCEPT ![4].status = "non_compliant"]

ComplianceCheckUpdates ==
    { <<>>,
      default_compliance_checks,
      all_checks("compliant"),
      one_non_compliant,
      << [ComplianceCheckItem("Controle valeur declaree") EXCEPT !.status = "non_compliant"],
         ComplianceCheckItem("Verification origine marchandises") >> }

\* NonComplianceUpdate payloads
undervaluation ==
    [non_compliance_type |-> "value", non_compliance_details |-> "Sous-evaluation",
     fiscal_impact |-> 50000, applicable_regulation |-> "CD-230"]

false_origin ==
    [non_compliance_type |-> "origin", non_compliance_details |-> "Fausse origine",
     fiscal_impact |-> 1200, applicable_regulation |-> "CD-215"]

NonComplianceUpdates == {undervaluation, false_origin}

\* DeclarantValidation payloads: fine_decision is any string
DeclarantValidations ==
    [acknowledged : BOOLEAN, fine_decision : {"pass_over", "customs_fine", "warning"}]

\* DocumentCreate payloads
DocumentCreates ==
    [title : {"Rapport"}, document_type : {"customs_report"},
     template_id : {"tpl1", "tpl9"}, content : {[findings |-> "RAS"]}]

\* a DocumentCreate payload whose template is stored
report ==
    [title |-> "Rapport", document_type |-> "customs_report",
     template_id |-> "tpl1", content |-> [findings |-> "RAS"]]

no_update == [title |-> None, content |-> None, status |-> None, assigned_to |-> None]

\* DocumentUpdate payloads: nothing, a title and a content, an assignee, or a status
DocumentUpdates ==
    {no_update,
     [no_update EXCEPT !.title = Some("Rapport v2"),
                       !.content = Some([findings |-> "Ecart"])],
     [no_update EXCEPT !.assigned_to = Some("co1")]}
    \cup {[no_update EXCEPT !.status = Some(s)] : s \in DocumentStatus}

\* the body of a DocumentTemplate, with the id it carries or none
template_body(id) ==
    [id |-> id, name |-> "Rapport", document_type |-> "customs_report",
     fields |-> << template_field("findings", "textarea", "Constatations") >>,
     checklist |-> << "Contrôle valeur déclarée" >>]

\* DocumentTemplate bodies: without id, with the id of the stored template,
\* with another id
TemplateBodies == {template_body(None), template_body(Some("tpl1")), template_body(Some("tpl9"))}

\* the Controls stored, and those a create_control request is about to store,
\* are at most MaxControls
ControlsBound ==
    Len(controls') + Cardinality({r \in requests' : r.op = "create_control"}) <= MaxControls

Init ==
    /\ controls = <<>>
    /\ declarations = <<>>
    /\ fines = <<>>
    /\ documents = <<>>
    /\ templates = << [id |-> "tpl1", name |-> "Rapport", document_type |-> "customs_report",
                       fields |-> << template_field("findings", "textarea", "Constatations") >>,
                       checklist |-> << "Contrôle valeur déclarée" >>,
                       created_at |-> 0] >>
    /\ clock = 0
    /\ resp = [op |-> "none", code |-> HTTP_200_OK]
    /\ requests = {}

\* every handler, with every input
Next ==
    \/ \E u \in ControlActors, d \in DeclarationIds :
            create_control(u, d) /\ ControlsBound
    \/ \E u \in ControlActors, c \in ControlIds, checks \in ComplianceCheckUpdates :
            update_compliance_checks(u, c, checks)
    \/ \E u \in ControlActors, c \in ControlIds, nc \in NonComplianceUpdates, pdf_ok \in BOOLEAN :
            update_non_compliance(u, c, nc, pdf_ok)
    \/ \E u \in ControlActors, c \in ControlIds, v \in DeclarantValidations, pdf_ok \in BOOLEAN :
            declarant_validation(u, c, v, pdf_ok)
    \/ \E u \in DocumentActors, data \in DocumentCreates : create_document(u, data)
    \/ \E u \in DocumentActors, d \in DocumentIds, upd \in DocumentUpdates :
            update_document(u, d, upd)
    \/ \E u \in DocumentActors, d \in DocumentIds : submit_document(u, d)
    \/ \E u \in Users : get_documents(u)
    \/ \E u \in Users, d \in DocumentIds : get_document(u, d)
    \/ \E u \in Users, d \in DocumentIds, pdf_ok \in BOOLEAN :
            download_document_pdf(u, d, pdf_ok)
    \/ \E u \in Users : get_controls(u)
    \/ \E u \in Users, c \in ControlIds : get_control(u, c)
    \/ \E u \in Users, c \in ControlIds : download_certificate(u, c)
    \/ \E u \in Users, f \in FineIds : download_payment_notice(u, f)
    \/ \E u \in Users, body \in TemplateBodies : create_template(u, body)
    \/ \E u \in Users, t \in TemplateIds, body \in TemplateBodies :
            update_template(u, t, body)
    \/ \E u \in Users, t \in TemplateIds : delete_template(u, t)
    \/ initialize_templates

Spec == Init /\ [][Next]_vars


(***************************************************************************)
(* The specifications of the properties: a few callers and payloads each,  *)
(* and every interleaving of the steps of their requests.                  *)
(***************************************************************************)
\* the drafting agents that write Documents, and the officers that write Controls
DocumentWriters == {"da1", "da2"}
ControlWriters == {"co1", "co2"}

\* DocumentUpdate payloads of the access specifications: an assignee, a title
AccessDocumentUpdates ==
    {[no_update EXCEPT !.assigned_to = Some("co1")],
     [no_update EXCEPT !.title = Some("Rapport v2")]}

\* ComplianceCheckUpdate payloads of the access specifications
AccessComplianceCheckUpdates ==
    {all_checks("compliant"), one_non_compliant}

\* the officer co1 creates a Control, replaces its checklist and records a
\* non-compliance
NextCompliance ==
    \/ \E d \in DeclarationIds :
            /\ create_control("co1", d)
            /\ ControlsBound
            /\ clock' <= MaxAccessClock
    \/ \E c \in ControlIds, checks \in ComplianceCheckUpdates :
            update_compliance_checks("co1", c, checks) /\ clock' <= MaxAccessClock
    \/ \E c \in ControlIds :
            update_non_compliance("co1", c, undervaluation, TRUE) /\ clock' <= MaxAccessClock

SpecCompliance == Init /\ [][NextCompliance]_vars

\* the officer co1 creates a Control, finds an item non-compliant and records
\* the non-compliance; the rendering of the certificate succeeds or fails
NextNonCompliance ==
    \/ \E d \in DeclarationIds :
            /\ create_control("co1", d)
            /\ ControlsBound
            /\ clock' <= MaxAccessClock
    \/ \E c \in ControlIds :
            update_compliance_checks("co1", c, one_non_compliant) /\ clock' <= MaxAccessClock
    \/ \E c \in ControlIds, nc \in NonComplianceUpdates, pdf_ok \in BOOLEAN :
            update_non_compliance("co1", c, nc, pdf_ok) /\ clock' <= MaxAccessClock

SpecNonCompliance == Init /\ [][NextNonCompliance]_vars

\* the officer co1 creates a Control, records a non-compliance and sends
\* every declarant validation; the rendering of the payment notice succeeds
\* or fails
NextValidation ==
    \/ \E d \in DeclarationIds :
            /\ create_control("co1", d)
            /\ ControlsBound
            /\ clock' <= MaxAccessClock
    \/ \E c \in ControlIds :
            update_non_compliance("co1", c, undervaluation, TRUE) /\ clock' <= MaxAccessClock
    \/ \E c \in ControlIds, v \in DeclarantValidations, pdf_ok \in BOOLEAN :
            declarant_validation("co1", c, v, pdf_ok) /\ clock' <= MaxAccessClock

SpecValidation == Init /\ [][NextValidation]_vars

\* two officers update the checklist of one Control (the officer co1 finds
\* every item compliant, the officer co2 finds one item non_compliant) while
\* the officer co1 records the non-compliance
NextConcurrentControls ==
    \/ \E d \in DeclarationIds :
            /\ create_control("co1", d)
            /\ ControlsBound
            /\ clock' <= MaxAccessClock
    \/ \E call \in {[user |-> "co1", checks |-> all_checks("compliant")],
                     [user |-> "co2", checks |-> one_non_compliant]},
          c \in ControlIds :
            update_compliance_checks(call.user, c, call.checks) /\ clock' <= MaxAccessClock
    \/ \E c \in ControlIds, nc \in NonComplianceUpdates :
            update_non_compliance("co1", c, nc, TRUE) /\ clock' <= MaxAccessClock

SpecConcurrentControls == Init /\ [][NextConcurrentControls]_vars

\* two officers and two drafting agents update one Control and one Document
NextConcurrent ==
    \/ \E d \in DeclarationIds :
            /\ create_control("co1", d)
            /\ ControlsBound
            /\ clock' <= MaxAccessClock
    \/ \E data \in DocumentCreates :
            create_document("da1", data) /\ clock' <= MaxAccessClock
    \/ \E u \in ControlWriters, c \in ControlIds, checks \in AccessComplianceCheckUpdates :
            update_compliance_checks(u, c, checks) /\ clock' <= MaxAccessClock
    \/ \E u \in DocumentWriters, d \in DocumentIds, upd \in AccessDocumentUpdates :
            update_document(u, d, upd) /\ clock' <= MaxAccessClock

SpecConcurrent == Init /\ [][NextConcurrent]_vars

\* the readers of the Controls: the two officers, the validation officer and
\* the management admin
ControlReaders == {"co1", "co2", "vo", "moa"}

\* the officers create Controls and the officer co2 finds every item
\* compliant; the Controls are listed and read
NextControlAccess ==
    \/ \E u \in ControlWriters, d \in DeclarationIds :
            /\ create_control(u, d)
            /\ ControlsBound
            /\ clock' <= MaxAccessClock
    \/ \E c \in ControlIds :
            update_compliance_checks("co2", c, all_checks("compliant"))
            /\ clock' <= MaxAccessClock
    \/ \E u \in ControlReaders : get_controls(u)
    \/ \E u \in ControlReaders, c \in ControlIds : get_control(u, c)

SpecControlAccess == Init /\ [][NextControlAccess]_vars

\* the callers of the artifact downloads: an officer and a drafting agent
ArtifactReaders == {"co1", "da1"}

\* the officer co1 takes a Control to its certificate and its fine; the
\* certificate and the payment notice are downloaded
NextArtifacts ==
    \/ \E d \in DeclarationIds :
            /\ create_control("co1", d)
            /\ ControlsBound
            /\ clock' <= MaxAccessClock
    \/ \E c \in ControlIds :
            update_non_compliance("co1", c, undervaluation, TRUE) /\ clock' <= MaxAccessClock
    \/ \E c \in ControlIds, pdf_ok \in BOOLEAN :
            /\ declarant_validation("co1", c,
                    [acknowledged |-> TRUE, fine_decision |-> "customs_fine"], pdf_ok)
            /\ clock' <= MaxAccessClock
    \/ \E u \in ArtifactReaders, c \in ControlIds : download_certificate(u, c)
    \/ \E u \in ArtifactReaders, f \in FineIds : download_payment_notice(u, f)

SpecArtifacts == Init /\ [][NextArtifacts]_vars

\* the officer co1 creates Controls, as many as the clock allows, and records
\* a non-compliance on those the requests address
NextSnapshots ==
    \/ \E d \in DeclarationIds :
            create_control("co1", d) /\ clock' <= MaxAccessClock
    \/ \E c \in ControlIds :
            update_non_compliance("co1", c, undervaluation, TRUE) /\ clock' <= MaxAccessClock

SpecSnapshots == Init /\ [][NextSnapshots]_vars

\* the drafting agents create, update and submit Documents
NextSubmits ==
    \/ \E u \in DocumentWriters, data \in DocumentCreates :
            create_document(u, data) /\ clock' <= MaxAccessClock
    \/ \E u \in DocumentWriters, d \in DocumentIds, upd \in AccessDocumentUpdates :
            update_document(u, d, upd) /\ clock' <= MaxAccessClock
    \/ \E u \in DocumentWriters, d \in DocumentIds :
            submit_document(u, d) /\ clock' <= MaxAccessClock

SpecSubmits == Init /\ [][NextSubmits]_vars

\* the drafting agent da1 creates a Document, updates it with every payload
\* and submits it
NextUpdates ==
    \/ \E data \in DocumentCreates :
            create_document("da1", data) /\ clock' <= MaxAccessClock
    \/ \E d \in DocumentIds, upd \in DocumentUpdates :
            update_document("da1", d, upd) /\ clock' <= MaxAccessClock
    \/ \E d \in DocumentIds :
            submit_document("da1", d) /\ clock' <= MaxAccessClock

SpecUpdates == Init /\ [][NextUpdates]_vars

\* the readers of the Documents: the two drafting agents, the two officers,
\* the validation officer and the management administrator
DocumentReaders == {"da1", "da2", "co1", "co2", "vo", "moa"}

\* the drafting agent da1 creates a Document, assigns it and submits it; the
\* Documents are listed and viewed and their PDF is downloaded
NextDocumentAccess ==
    \/ create_document("da1", report) /\ clock' <= MaxAccessClock
    \/ \E d \in DocumentIds :
            /\ update_document("da1", d, [no_update EXCEPT !.assigned_to = Some("co1")])
            /\ clock' <= MaxAccessClock
    \/ \E d \in DocumentIds :
            submit_document("da1", d) /\ clock' <= MaxAccessClock
    \/ \E u \in DocumentReaders : get_documents(u)
    \/ \E u \in DocumentReaders, d \in DocumentIds : get_document(u, d)
    \/ \E u \in {"da2", "co1"}, d \in DocumentIds :
            download_document_pdf(u, d, TRUE)

SpecDocumentAccess == Init /\ [][NextDocumentAccess]_vars

\* the callers of delete_template: the two roles it admits and one it refuses
TemplateActors == {"moa", "vo", "da1"}

\* the drafting agent da1 creates Documents while templates are created,
\* updated and deleted
NextTemplates ==
    \/ \E data \in DocumentCreates :
            create_document("da1", data) /\ clock' <= MaxAccessClock
    \/ \E u \in {"vo", "da1"} :
            create_template(u, template_body(Some("tpl9"))) /\ clock' <= MaxAccessClock
    \/ \E u \in {"moa", "vo"} :
            update_template(u, "tpl1", template_body(None)) /\ clock' <= MaxAccessClock
    \/ \E u \in TemplateActors, t \in TemplateIds :
            delete_template(u, t) /\ clock' <= MaxAccessClock
    \/ initialize_templates /\ clock' <= MaxAccessClock

SpecTemplates == Init /\ [][NextTemplates]_vars

\* every write handler of the two workflows, called by the officer co1 and
\* the drafting agent da1
NextWorkflows ==
    \/ \E d \in DeclarationIds :
            /\ create_control("co1", d)
            /\ ControlsBound
            /\ clock' <= MaxAccessClock
    \/ \E c \in ControlIds :
            update_compliance_checks("co1", c, one_non_compliant) /\ clock' <= MaxAccessClock
    \/ \E c \in ControlIds, pdf_ok \in BOOLEAN :
            update_non_compliance("co1", c, undervaluation, pdf_ok) /\ clock' <= MaxAccessClock
    \/ \E c \in ControlIds, acknowledged \in BOOLEAN :
            /\ declarant_validation("co1", c,
                    [acknowledged |-> acknowledged, fine_decision |-> "customs_fine"], TRUE)
            /\ clock' <= MaxAccessClock
    \/ create_document("da1", report) /\ clock' <= MaxAccessClock
    \/ \E d \in DocumentIds :
            /\ update_document("da1", d, [no_update EXCEPT !.title = Some("Rapport v2")])
            /\ clock' <= MaxAccessClock
    \/ \E d \in DocumentIds :
            submit_document("da1", d) /\ clock' <= MaxAccessClock

SpecWorkflows == Init /\ [][NextWorkflows]_vars

\* the callers of the two workflows together: an officer and the roles the
\* Control handlers refuse; a drafting agent and the roles create_document
\* and submit_document refuse
WorkflowControlActors == {"co1", "da1", "moa"}
WorkflowDocumentActors == {"da1", "co1", "vo", "moa"}

\* every write handler of the two workflows, called by the roles it refuses;
\* an officer stores a Control with its certificate and a drafting agent
\* stores and submits a Document
NextRoles ==
    \/ \E u \in WorkflowControlActors, d \in DeclarationIds :
            /\ create_control(u, d)
            /\ ControlsBound
            /\ clock' <= MaxAccessClock
    \/ \E u \in {"da1", "moa"}, c \in ControlIds :
            update_compliance_checks(u, c, one_non_compliant) /\ clock' <= MaxAccessClock
    \/ \E u \in WorkflowControlActors, c \in ControlIds :
            update_non_compliance(u, c, undervaluation, TRUE) /\ clock' <= MaxAccessClock
    \/ \E u \in {"da1", "moa"}, c \in ControlIds :
            /\ declarant_validation(u, c,
                    [acknowledged |-> TRUE, fine_decision |-> "customs_fine"], TRUE)
            /\ clock' <= MaxAccessClock
    \/ \E u \in WorkflowDocumentActors :
            create_document(u, report) /\ clock' <= MaxAccessClock
    \/ \E u \in WorkflowDocumentActors, d \in DocumentIds :
            submit_document(u, d) /\ clock' <= MaxAccessClock

SpecRoles == Init /\ [][NextRoles]_vars

\* the ids the lookups address: those of the stored entities and one that is
\* never stored
LookupControlIds == 1..(MaxControls + 1)
LookupDocumentIds == 1..(MaxDocuments + 1)

\* the officer co1 and the drafting agent da1 store a Control with its
\* certificate and a Document, read stored and unknown ids and write to an
\* unknown id
NextLookups ==
    \/ \E d \in DeclarationIds :
            /\ create_control("co1", d)
            /\ ControlsBound
            /\ clock' <= MaxAccessClock
    \/ /\ update_compliance_checks("co1", MaxControls + 1, all_checks("compliant"))
       /\ clock' <= MaxAccessClock
    \/ \E c \in LookupControlIds :
            update_non_compliance("co1", c, undervaluation, TRUE) /\ clock' <= MaxAccessClock
    \/ /\ declarant_validation("co1", MaxControls + 1,
                [acknowledged |-> TRUE, fine_decision |-> "customs_fine"], TRUE)
       /\ clock' <= MaxAccessClock
    \/ \E c \in LookupControlIds : get_control("co1", c)
    \/ create_document("da1", report) /\ clock' <= MaxAccessClock
    \/ /\ update_document("da1", MaxDocuments + 1,
                [no_update EXCEPT !.title = Some("Rapport v2")])
       /\ clock' <= MaxAccessClock
    \/ submit_document("da1", MaxDocuments + 1) /\ clock' <= MaxAccessClock
    \/ \E d \in LookupDocumentIds : get_document("da1", d)
    \/ \E d \in LookupDocumentIds : download_document_pdf("da1", d, TRUE)

SpecLookups == Init /\ [][NextLookups]_vars

\* the caller of the read handlers
Readers == {"da1"}

\* the officer co1 takes a Control to its fine and the drafting agent da1
\* creates and submits a Document; da1 calls every read handler
NextReads ==
    \/ \E d \in DeclarationIds :
            /\ create_control("co1", d)
            /\ ControlsBound
            /\ clock' <= MaxAccessClock
    \/ \E c \in ControlIds :
            update_non_compliance("co1", c, undervaluation, TRUE) /\ clock' <= MaxAccessClock
    \/ \E c \in ControlIds :
            /\ declarant_validation("co1", c,
                    [acknowledged |-> TRUE, fine_decision |-> "customs_fine"], TRUE)
            /\ clock' <= MaxAccessClock
    \/ create_document("da1", report) /\ clock' <= MaxAccessClock
    \/ \E d \in DocumentIds :
            submit_document("da1", d) /\ clock' <= MaxAccessClock
    \/ \E u \in Readers : get_documents(u)
    \/ \E u \in Readers, d \in DocumentIds : get_document(u, d)
    \/ \E u \in Readers, d \in DocumentIds, pdf_ok \in BOOLEAN :
            download_document_pdf(u, d, pdf_ok)
    \/ \E u \in Readers : get_controls(u)
    \/ \E u \in Readers, c \in ControlIds : get_control(u, c)
    \/ \E u \in Readers, c \in ControlIds : download_certificate(u, c)
    \/ \E u \in Readers, f \in FineIds : download_payment_notice(u, f)

SpecReads == Init /\ [][NextReads]_vars

(***************************************************************************)
(* Helpers of the properties.                                              *)
(***************************************************************************)
Last(seq) == seq[Len(seq)]

\* new is old with exactly one entry appended
AppendsOne(old, new) ==
    /\ Len(new) = Len(old) + 1
    /\ SubSeq(new, 1, Len(old)) = old

\* the step applies the store call pc that the request r of the route op awaits
Applies(r, op, pc) ==
    /\ r \in requests
    /\ r \notin requests'
    /\ r.op = op
    /\ r.pc = pc

\* the step is one of the request r of the route op
StepOf(r, op) ==
    /\ r \in requests
    /\ r \notin requests'
    /\ r.op = op

\* the step answers a request of the route op
Answers(op) ==
    /\ resp' # resp
    /\ resp'.op = op

\* the step refuses a request of the route op with the code: nothing is
\* stored and no request awaits a store call for it
Refused(op, code) ==
    /\ resp'.op = op
    /\ resp'.code = code
    /\ UNCHANGED <<store, requests>>

\* the Control at the position of control_id before the step, after it
After(control_id) == controls'[find_one(controls, control_id)]

\* the ids of the stored templates
StoredTemplateIds == {templates[i].id : i \in 1..Len(templates)}

Authorized(u, c) ==
    /\ require_role(u, ControlRoles)
    /\ find_one(controls, c) # 0

\* the positions of the fines that reference the Control at position i
FinesOf(i) == {k \in 1..Len(fines) : fines[k].control_id = controls[i].id}

(***************************************************************************)
(* Checklist properties (SpecCompliance).                                  *)
(***************************************************************************)
\* C3: the update_one of an update_compliance_checks with the list S stores
\* the status non_compliant if some item of S is non_compliant and
\* compliance_check otherwise, and the request is then answered 200.
C3_ComplianceDecision ==
    [][\A r \in requests :
          /\ Applies(r, "update_compliance_checks", "controls.update_one") =>
                LET S == r.args.compliance_checks
                IN  After(r.args.control_id).status =
                        IF \E k \in 1..Len(S) : S[k].status = "non_compliant"
                        THEN "non_compliant" ELSE "compliance_check"
          /\ Applies(r, "update_compliance_checks", "controls.find_one") =>
                resp'.code = HTTP_200_OK]_vars

\* C3 witness: a list with compliant items and one non-compliant item was
\* submitted, the request was answered 200 and the Control is non_compliant
C3_Witness ==
    /\ resp.op = "update_compliance_checks"
    /\ resp.code = HTTP_200_OK
    /\ resp.body.status = "non_compliant"
    /\ \E i \in 1..Len(controls) :
          /\ controls[i].status = "non_compliant"
          /\ controls[i].compliance_checks[1].status = "compliant"
          /\ controls[i].compliance_checks[4].status = "non_compliant"

\* C20: the insert_one of a create_control stores one more Control, with
\* status in_progress, the caller as control officer, the 7 checklist items in
\* order, all pending and unchecked, no non-compliance field,
\* declarant_acknowledged and pv_generated false and a history of one
\* "control_initiated" entry, and the request is answered 200; no stored
\* Control has status initiated.
C20_CreateControl ==
    [][\A r \in requests :
          Applies(r, "create_control", "controls.insert_one") =>
            /\ resp' = [op |-> "create_control", code |-> HTTP_200_OK]
            /\ AppendsOne(controls, controls')
            /\ \A i \in 1..Len(controls') : controls'[i].status # "initiated"
            /\ LET c == Last(controls')
               IN  /\ c.status = "in_progress"
                   /\ c.control_officer_id = r.user
                   /\ c.declaration_id = r.args.declaration_id
                   /\ Len(c.compliance_checks) = 7
                   /\ \A k \in 1..7 :
                          /\ c.compliance_checks[k].item = default_compliance_checks[k].item
                          /\ c.compliance_checks[k].status = "pending"
                          /\ c.compliance_checks[k].checked_by = None
                          /\ c.compliance_checks[k].checked_at = None
                   /\ c.non_compliance_type = None
                   /\ c.non_compliance_details = None
                   /\ c.fiscal_impact = None
                   /\ c.applicable_regulation = None
                   /\ ~c.declarant_acknowledged
                   /\ ~c.pv_generated
                   /\ Len(c.history) = 1
                   /\ c.history[1].action = "control_initiated"]_vars

\* C20 witness: a Control was just created by the officer co1 and is stored
\* with status in_progress and one history entry
C20_Witness ==
    /\ resp = [op |-> "create_control", code |-> HTTP_200_OK]
    /\ Len(controls) >= 1
    /\ Last(controls).status = "in_progress"
    /\ Last(controls).control_officer_id = "co1"
    /\ Len(Last(controls).compliance_checks) = 7
    /\ Len(Last(controls).history) = 1

\* C26: the update_one of an update_compliance_checks stores, for every
\* submitted item that is not pending, the caller's name as checked_by and a
\* checked_at, and stores every pending item as submitted.
C26_CheckStamps ==
    [][\A r \in requests :
          Applies(r, "update_compliance_checks", "controls.update_one") =>
            LET checks == r.args.compliance_checks
                stored == After(r.args.control_id).compliance_checks
            IN  /\ Len(stored) = Len(checks)
                /\ \A k \in 1..Len(checks) :
                      IF checks[k].status # "pending"
                      THEN /\ stored[k].checked_by = Some(full_name(r.user))
                           /\ stored[k].checked_at # None
                           /\ stored[k].item = checks[k].item
                           /\ stored[k].status = checks[k].status
                      ELSE stored[k] = checks[k]]_vars

\* C26 witness: of two submitted items the non-compliant one is stamped with
\* the officer's name and the pending one is not
C26_Witness ==
    /\ resp.op = "update_compliance_checks"
    /\ resp.code = HTTP_200_OK
    /\ \E i \in 1..Len(controls) :
          /\ Len(controls[i].compliance_checks) = 2
          /\ controls[i].compliance_checks[1].status = "non_compliant"
          /\ controls[i].compliance_checks[1].checked_by = Some("Control Officer One")
          /\ controls[i].compliance_checks[2].status = "pending"
          /\ controls[i].compliance_checks[2].checked_by = None

\* the items and statuses of a checklist, in order
ItemStatuses(checks) ==
    [k \in 1..Len(checks) |-> <<checks[k].item, checks[k].status>>]

\* C27: when the update_one of an update_compliance_checks is applied with a
\* list whose items and statuses are those the previous
\* update_compliance_checks stored on the same Control, the Control's status
\* and its items' statuses are the same after it as before.
C27_ComplianceIdempotent ==
    [][\A r \in requests :
          Applies(r, "update_compliance_checks", "controls.update_one") =>
            LET i == find_one(controls, r.args.control_id)
            IN  (/\ Last(controls[i].history).action = "compliance_check_updated"
                 /\ ItemStatuses(controls[i].compliance_checks)
                        = ItemStatuses(r.args.compliance_checks)) =>
                    /\ controls'[i].status = controls[i].status
                    /\ ItemStatuses(controls'[i].compliance_checks)
                          = ItemStatuses(controls[i].compliance_checks)]_vars

\* C27 witness: the same list with one non-compliant item was submitted twice
\* in a row and the Control is non_compliant
C27_Witness ==
    \E i \in 1..Len(controls) :
        /\ Len(controls[i].history) = 3
        /\ controls[i].history[2].action = "compliance_check_updated"
        /\ controls[i].history[3].action = "compliance_check_updated"
        /\ controls[i].history[2].details = controls[i].history[3].details
        /\ controls[i].history[3].details.non_compliant_count = 1
        /\ controls[i].status = "non_compliant"

\* what a submitted or stored checklist says of its items, in order
ItemContents(checks) ==
    [k \in 1..Len(checks) |-> <<checks[k].item, checks[k].status, checks[k].notes>>]

\* the positions of the items of the checklist that are non_compliant
NonCompliantPositions(checks) ==
    {k \in 1..Len(checks) : checks[k].status = "non_compliant"}

\* the fields of a Control that update_compliance_checks writes
ComplianceFields == {"compliance_checks", "status", "updated_at", "history"}

\* C37: the update_one of an update_compliance_checks stores the submitted
\* items in the submitted order, whatever their number and the list stored
\* before, appends one "compliance_check_updated" entry that counts the
\* non_compliant items submitted, and changes no other field of the Control
\* but status and updated_at, no other Control, no Declaration and no fine.
C37_ComplianceFrame ==
    [][\A r \in requests :
          Applies(r, "update_compliance_checks", "controls.update_one") =>
            LET i == find_one(controls, r.args.control_id)
                checks == r.args.compliance_checks
            IN  /\ UNCHANGED <<declarations, fines, documents, templates>>
                /\ ItemContents(controls'[i].compliance_checks) = ItemContents(checks)
                /\ AppendsOne(controls[i].history, controls'[i].history)
                /\ Last(controls'[i].history).action = "compliance_check_updated"
                /\ Last(controls'[i].history).details.non_compliant_count
                      = Cardinality(NonCompliantPositions(checks))
                /\ \A f \in (DOMAIN controls[i]) \ ComplianceFields :
                      controls'[i][f] = controls[i][f]
                /\ Len(controls') = Len(controls)
                /\ \A j \in (1..Len(controls)) \ {i} : controls'[j] = controls[j]]_vars

\* C37 witness: on a Control with its non-compliance and certificate recorded,
\* a two-item list with one non_compliant item replaced the seven stored
\* items, and the recorded fields are still there
C37_Witness ==
    \E i \in 1..Len(controls) :
        /\ Len(controls[i].compliance_checks) = 2
        /\ Last(controls[i].history).action = "compliance_check_updated"
        /\ Last(controls[i].history).details.non_compliant_count = 1
        /\ controls[i].non_compliance_type # None
        /\ controls[i].certificate_path # None

(***************************************************************************)
(* Non-compliance properties (SpecNonCompliance).                          *)
(***************************************************************************)
\* C9: the update_one of an update_non_compliance stores the four submitted
\* values, sets the status to certificate_generated, stores a certificate
\* path and appends one "certificate_generated" entry, and the request is
\* then answered 200.
C9_RecordNonCompliance ==
    [][\A r \in requests :
          /\ Applies(r, "update_non_compliance", "controls.update_one") =>
                LET i == find_one(controls, r.args.control_id)
                    nc == r.args.update_data
                IN  /\ controls'[i].non_compliance_type = Some(nc.non_compliance_type)
                    /\ controls'[i].non_compliance_details = Some(nc.non_compliance_details)
                    /\ controls'[i].fiscal_impact = Some(nc.fiscal_impact)
                    /\ controls'[i].applicable_regulation = Some(nc.applicable_regulation)
                    /\ controls'[i].status = "certificate_generated"
                    /\ controls'[i].certificate_path # None
                    /\ AppendsOne(controls[i].history, controls'[i].history)
                    /\ Last(controls'[i].history).action = "certificate_generated"
          /\ Applies(r, "update_non_compliance", "controls.find_one") =>
                resp'.code = HTTP_200_OK]_vars

\* C9 witness: a non-compliance of type value with fiscal impact 50000 was
\* recorded on a Control that was non_compliant, and the request was answered
\* 200 with the Control
C9_Witness ==
    /\ resp.op = "update_non_compliance"
    /\ resp.code = HTTP_200_OK
    /\ resp.body.status = "certificate_generated"
    /\ \E i \in 1..Len(controls) :
          /\ controls[i].status = "certificate_generated"
          /\ controls[i].non_compliance_type = Some("value")
          /\ controls[i].fiscal_impact = Some(50000)
          /\ controls[i].applicable_regulation = Some("CD-230")
          /\ controls[i].certificate_path # None
          /\ Len(controls[i].history) = 3

\* C10: when the certificate rendering fails, the update_non_compliance
\* request is answered 500 and ends there: the step stores nothing, no store
\* call of the request follows, and no earlier step of the request stored
\* anything.
C10_RenderingFailure ==
    [][\A r \in requests :
          /\ update_non_compliance_find_declaration(r, FALSE) =>
                /\ resp'.op = "update_non_compliance"
                /\ resp'.code # HTTP_200_OK
                /\ find_declaration(r.found.declaration_id) # 0 =>
                        resp'.code = HTTP_500_INTERNAL_SERVER_ERROR
                /\ requests' = requests \ {r}
                /\ UNCHANGED store
          /\ \A u \in Users, c \in ControlIds, nc \in NonComplianceUpdates :
                update_non_compliance_find_one(u, c, nc) => UNCHANGED store]_vars

\* C10 witness: a rendering failure was answered with 500 on a non_compliant
\* Control that has no non-compliance fields and no certificate
C10_Witness ==
    /\ resp = [op |-> "update_non_compliance", code |-> HTTP_500_INTERNAL_SERVER_ERROR]
    /\ requests = {}
    /\ \E i \in 1..Len(controls) :
          /\ controls[i].status = "non_compliant"
          /\ controls[i].non_compliance_type = None
          /\ controls[i].fiscal_impact = None
          /\ controls[i].certificate_path = None
          /\ Len(controls[i].history) = 2

\* C21: on every stored Control, non_compliance_type, fiscal_impact and
\* applicable_regulation are all set or all unset.
C21_NonComplianceFieldsTogether ==
    \A i \in 1..Len(controls) :
        \/ /\ controls[i].non_compliance_type = None
           /\ controls[i].fiscal_impact = None
           /\ controls[i].applicable_regulation = None
        \/ /\ controls[i].non_compliance_type # None
           /\ controls[i].fiscal_impact # None
           /\ controls[i].applicable_regulation # None

\* C21 witness: a Control carries the three fields, and its checklist was
\* written again after they were recorded
C21_Witness ==
    \E i \in 1..Len(controls) :
        /\ controls[i].non_compliance_type = Some("origin")
        /\ controls[i].fiscal_impact = Some(1200)
        /\ controls[i].applicable_regulation = Some("CD-215")
        /\ controls[i].status = "non_compliant"

\* C24: every stored Control whose status is certificate_generated has a
\* certificate path and its four non-compliance fields.
C24_CertificateWithStatus ==
    \A i \in 1..Len(controls) :
        controls[i].status = "certificate_generated" =>
            /\ controls[i].certificate_path # None
            /\ controls[i].non_compliance_type # None
            /\ controls[i].non_compliance_details # None
            /\ controls[i].fiscal_impact # None
            /\ controls[i].applicable_regulation # None

\* C24 witness: a Control is certificate_generated with its certificate, and
\* the last request, whose rendering failed, was answered 500
C24_Witness ==
    /\ resp = [op |-> "update_non_compliance", code |-> HTTP_500_INTERNAL_SERVER_ERROR]
    /\ \E i \in 1..Len(controls) :
          /\ controls[i].status = "certificate_generated"
          /\ controls[i].certificate_path = Some("certificate_of_visit.pdf")

(***************************************************************************)
(* Declarant validation properties (SpecValidation).                       *)
(***************************************************************************)
\* a declarant validation with decision "customs_fine" succeeded on the Control
\* at position i
CustomsFineDecided(i) ==
    \E h \in 1..Len(controls[i].history) :
        /\ controls[i].history[h].action = "customs_fine_initiated"
        /\ controls[i].history[h].details.decision = "customs_fine"

\* C4: when no request awaits a store call, every Control is referenced by at
\* most one CustomsFine, and by one exactly when a declarant validation with
\* decision "customs_fine" succeeded on it.
C4_OneFinePerControl ==
    requests = {} =>
        \A i \in 1..Len(controls) :
            /\ Cardinality(FinesOf(i)) <= 1
            /\ Cardinality(FinesOf(i)) = 1 <=> CustomsFineDecided(i)

\* the request r is a declarant validation with acknowledgement and the decision
Decides(r, decision) ==
    /\ r.op = "declarant_validation"
    /\ r.args.validation_data = [acknowledged |-> TRUE, fine_decision |-> decision]

\* C5: a declarant_validation with acknowledged and decision "customs_fine"
\* inserts one CustomsFine for its Control with the Control's fiscal impact
\* and regulation as its find_one read them, a fine number and a payment
\* notice path; its update_one sets the status to fine_issued and appends a
\* "customs_fine_initiated" entry, and the request is answered 200.
C5_CustomsFine ==
    [][\A r \in requests :
          Decides(r, "customs_fine") =>
            /\ Applies(r, "declarant_validation", "fines.insert_one") =>
                  /\ AppendsOne(fines, fines')
                  /\ Last(fines').control_id = r.args.control_id
                  /\ Some(Last(fines').amount) = r.found.fiscal_impact
                  /\ Some(Last(fines').regulation_code) = r.found.applicable_regulation
                  /\ Last(fines').sydonia_lo_number # None
                  /\ Last(fines').payment_notice_path # None
            /\ Applies(r, "declarant_validation", "controls.update_one") =>
                  LET i == find_one(controls, r.args.control_id)
                  IN  /\ controls'[i].status = "fine_issued"
                      /\ AppendsOne(controls[i].history, controls'[i].history)
                      /\ Last(controls'[i].history).action = "customs_fine_initiated"
                      /\ fines # <<>>
                      /\ resp' = [op |-> "declarant_validation", code |-> HTTP_200_OK]]_vars

\* C5 witness: a fine of 50000 under CD-230 was issued for a Control that is
\* fine_issued
C5_Witness ==
    /\ resp = [op |-> "declarant_validation", code |-> HTTP_200_OK]
    /\ \E i \in 1..Len(controls), k \in 1..Len(fines) :
          /\ controls[i].status = "fine_issued"
          /\ controls[i].fine_decision = Some("customs_fine")
          /\ controls[i].fiscal_impact = Some(50000)
          /\ fines[k].control_id = controls[i].id
          /\ fines[k].amount = 50000
          /\ fines[k].regulation_code = "CD-230"
          /\ fines[k].payment_notice_path # None

\* C6: declarant_validation with acknowledged and a decision that is neither
\* "pass_over" nor "customs_fine", by an admitted caller on a stored Control,
\* is refused with 400: nothing is stored and the request awaits no store call.
C6_InvalidDecisionRejected ==
    [][\A u \in Users, c \in ControlIds :
          (/\ Authorized(u, c)
           /\ declarant_validation_find_one(u, c,
                  [acknowledged |-> TRUE, fine_decision |-> "warning"])) =>
              Refused("declarant_validation", HTTP_400_BAD_REQUEST)]_vars

\* C7: declarant_validation without acknowledgement is refused whatever the
\* decision and the Control's status, with 400 when the caller is admitted and
\* the Control stored: no Control, fine or Declaration changes and the request
\* awaits no store call.
C7_NotAcknowledged ==
    [][\A u \in Users, c \in ControlIds, fd \in {"pass_over", "customs_fine", "warning"} :
          declarant_validation_find_one(u, c,
                [acknowledged |-> FALSE, fine_decision |-> fd]) =>
              /\ resp'.op = "declarant_validation"
              /\ resp'.code \in {HTTP_400_BAD_REQUEST, HTTP_403_FORBIDDEN,
                                 HTTP_404_NOT_FOUND}
              /\ Authorized(u, c) => resp'.code = HTTP_400_BAD_REQUEST
              /\ UNCHANGED <<store, requests>>]_vars

\* C7 witness: a validation without acknowledgement was refused with 400 on a
\* Control that has its certificate
C7_Witness ==
    /\ resp = [op |-> "declarant_validation", code |-> HTTP_400_BAD_REQUEST]
    /\ \E i \in 1..Len(controls) :
          /\ controls[i].status = "certificate_generated"
          /\ ~controls[i].declarant_acknowledged
          /\ ~controls[i].pv_generated
          /\ controls[i].fine_decision = None
    /\ fines = <<>>

\* C8: no step of a declarant_validation with acknowledged and decision
\* "pass_over" inserts a fine; its update_one sets the status to completed,
\* sets declarant_acknowledged and pv_generated and appends a
\* "control_completed_pass_over" entry, and the request is answered 200.
C8_PassOver ==
    [][\A r \in requests :
          (Decides(r, "pass_over") /\ StepOf(r, "declarant_validation")) =>
            /\ fines' = fines
            /\ r.pc = "controls.update_one"
            /\ LET i == find_one(controls, r.args.control_id)
               IN  /\ controls'[i].status = "completed"
                   /\ controls'[i].declarant_acknowledged
                   /\ controls'[i].pv_generated
                   /\ AppendsOne(controls[i].history, controls'[i].history)
                   /\ Last(controls'[i].history).action = "control_completed_pass_over"
                   /\ resp' = [op |-> "declarant_validation", code |-> HTTP_200_OK]]_vars

\* C8 witness: a Control with a recorded non-compliance was completed with
\* "pass_over" and there is no fine
C8_Witness ==
    /\ resp = [op |-> "declarant_validation", code |-> HTTP_200_OK]
    /\ \E i \in 1..Len(controls) :
          /\ controls[i].status = "completed"
          /\ controls[i].fine_decision = Some("pass_over")
          /\ controls[i].fiscal_impact # None
          /\ FinesOf(i) = {}

\* C11: the update_one of an update_non_compliance is applied only for a
\* request that read a Control whose status was non_compliant, the insert_one
\* and the update_one of a declarant_validation only for a request that read a
\* Control whose status was certificate_generated with a certificate recorded.
C11_PreconditionStatus ==
    [][\A r \in requests :
          /\ Applies(r, "update_non_compliance", "controls.update_one") =>
                r.found.status = "non_compliant"
          /\ (StepOf(r, "declarant_validation")
                /\ r.pc \in {"fines.insert_one", "controls.update_one"}) =>
                /\ r.found.status = "certificate_generated"
                /\ r.found.certificate_path # None]_vars

\* C12: once a Control's status is completed or fine_issued, no step changes it.
C12_TerminalStatus ==
    [][\A i \in 1..Len(controls) :
          controls[i].status \in {"completed", "fine_issued"} =>
              controls'[i].status = controls[i].status]_vars

\* C22: on every stored Control, a fine decision is set only when
\* declarant_acknowledged is true.
C22_DecisionAfterAcknowledgement ==
    \A i \in 1..Len(controls) :
        controls[i].fine_decision # None => controls[i].declarant_acknowledged

\* C22 witness: a Control carries the decision "pass_over" and the
\* acknowledgement
C22_Witness ==
    \E i \in 1..Len(controls) :
        /\ controls[i].fine_decision = Some("pass_over")
        /\ controls[i].declarant_acknowledged

\* C32: a CustomsFine references a Control exactly when that Control's status
\* is fine_issued with declarant_acknowledged true, in every state, those
\* between the store calls of a declarant validation included.
C32_FineWithStatus ==
    \A i \in 1..Len(controls) :
        FinesOf(i) # {} <=>
            (controls[i].status = "fine_issued" /\ controls[i].declarant_acknowledged)

(***************************************************************************)
(* Properties under interleaved requests (SpecConcurrentControls,          *)
(* SpecConcurrent).                                                        *)
(***************************************************************************)
\* C31: a Control whose status is compliance_check has no non_compliant item
\* in its stored checklist, and a Control whose status is non_compliant has at
\* least one, whatever the order in which the officers' requests read and write.
C31_StatusMatchesChecklist ==
    \A i \in 1..Len(controls) :
        /\ controls[i].status = "compliance_check" =>
              NonCompliantPositions(controls[i].compliance_checks) = {}
        /\ controls[i].status = "non_compliant" =>
              NonCompliantPositions(controls[i].compliance_checks) # {}

\* C31 witness: two officers' requests wrote to one Control, the second one
\* while the first awaited its response, and the Control is non_compliant
\* with a non_compliant item
C31_Witness ==
    /\ \E r \in requests : r.op = "update_compliance_checks" /\ r.pc = "controls.find_one"
    /\ \E i \in 1..Len(controls) :
          /\ controls[i].status = "non_compliant"
          /\ NonCompliantPositions(controls[i].compliance_checks) # {}
          /\ Len(controls[i].history) = 3
          /\ controls[i].history[2].user_id # controls[i].history[3].user_id
          /\ controls[i].history[3].action = "compliance_check_updated"
          /\ controls[i].history[3].timestamp < controls[i].history[2].timestamp

\* the entity a request addresses, as it is stored
Stored(r) ==
    IF r.op = "update_compliance_checks"
    THEN controls[find_one(controls, r.args.control_id)]
    ELSE documents[find_one(documents, r.args.document_id)]

ListedControls(u) ==
    IF role(u) = CONTROL_OFFICER
    THEN {i \in 1..Len(controls) : controls[i].control_officer_id = u}
    ELSE 1..Len(controls)

\* C18: get_controls returns to a control officer exactly the Controls whose
\* control officer is the caller, and every Control to a validation officer
\* or the management administrator; get_control refuses with 403 a control
\* officer who does not own the Control and returns the Control to its owner,
\* to a validation officer and to the management administrator.
C18_ControlReads ==
    [][/\ (Answers("get_controls") /\ role(resp'.user) # DRAFTING_AGENT) =>
            /\ resp'.code = HTTP_200_OK
            /\ Len(resp'.body) = Cardinality(ListedControls(resp'.user))
            /\ {resp'.body[k] : k \in 1..Len(resp'.body)}
                  = {controls[i] : i \in ListedControls(resp'.user)}
       /\ (Answers("get_control") /\ find_one(controls, resp'.id) # 0) =>
            LET control == controls[find_one(controls, resp'.id)]
            IN  /\ (role(resp'.user) = CONTROL_OFFICER
                        /\ control.control_officer_id # resp'.user) =>
                        resp'.code = HTTP_403_FORBIDDEN
                /\ (\/ role(resp'.user) \in {VALIDATION_OFFICER, MOA}
                    \/ control.control_officer_id = resp'.user) =>
                        /\ resp'.code = HTTP_200_OK
                        /\ resp'.body = control]_vars

\* C18 witness: the officer co2 lists no Control while co1 owns one
C18_Witness ==
    /\ resp.op = "get_controls"
    /\ resp.user = "co2"
    /\ resp.body = <<>>
    /\ \E i \in 1..Len(controls) : controls[i].control_officer_id = "co1"

\* the routes that write to a stored Control
ControlUpdates ==
    {"update_compliance_checks", "update_non_compliance", "declarant_validation"}

\* C35: a request of update_compliance_checks, update_non_compliance or
\* declarant_validation by a control officer applies no store call for, and
\* is not answered with, a Control whose control_officer_id is another user.
C35_OfficerChangesOwnControls ==
    [][\A r \in requests :
          (/\ r \notin requests'
           /\ r.op \in ControlUpdates
           /\ role(r.user) = CONTROL_OFFICER) =>
              controls[find_one(controls, r.args.control_id)].control_officer_id = r.user]_vars

\* C28: a download of a certificate or of a payment notice changes no entity,
\* and it answers 404 when the Control or the fine does not exist or when its
\* certificate path or payment notice path is unset.
C28_ArtifactRetrieval ==
    [][/\ (Answers("download_certificate") \/ Answers("download_payment_notice")) =>
            UNCHANGED <<controls, declarations, fines, documents, templates>>
       /\ Answers("download_certificate") =>
            LET i == find_one(controls, resp'.id)
            IN  (i = 0 \/ controls[i].certificate_path = None) =>
                    resp'.code = HTTP_404_NOT_FOUND
       /\ Answers("download_payment_notice") =>
            LET k == find_one(fines, resp'.id)
            IN  (k = 0 \/ fines[k].payment_notice_path = None) =>
                    resp'.code = HTTP_404_NOT_FOUND]_vars

\* C28 witness: the certificate of a stored Control without certificate was
\* asked for and the answer was 404
C28_Witness ==
    /\ resp.op = "download_certificate"
    /\ resp.code = HTTP_404_NOT_FOUND
    /\ find_one(controls, resp.id) # 0
    /\ controls[find_one(controls, resp.id)].certificate_path = None

(***************************************************************************)
(* Declaration snapshots (SpecSnapshots).                                  *)
(***************************************************************************)
\* the stored Declarations carry pairwise different external declaration ids
OneSnapshotPerDeclaration(stored) ==
    \A i, j \in 1..Len(stored) :
        stored[i].declaration_id = stored[j].declaration_id => i = j

\* C29: no step changes or removes a stored Declaration, and the stored
\* Declarations carry pairwise different external declaration ids.
C29_SnapshotOnce ==
    [][/\ Len(declarations') >= Len(declarations)
       /\ SubSeq(declarations', 1, Len(declarations)) = declarations
       /\ OneSnapshotPerDeclaration(declarations')]_vars

(***************************************************************************)
(* Document workflow properties (SpecSubmits, SpecUpdates).                *)
(***************************************************************************)
DocumentTransitions ==
    { <<"draft", "under_control">>,
      <<"under_control", "under_validation">>,
      <<"under_validation", "validated">>,
      <<"under_validation", "rejected">> }

\* C1: every change of a Document's status is one of Draft->UnderControl,
\* UnderControl->UnderValidation, UnderValidation->Validated,
\* UnderValidation->Rejected; an operation that would change it otherwise
\* leaves the status unchanged.
C1_StatusTransitions ==
    [][\A i \in 1..Len(documents) :
          documents'[i].status # documents[i].status
              => <<documents[i].status, documents'[i].status>> \in DocumentTransitions]_vars

IsCreator(u, d) ==
    /\ find_one(documents, d) # 0
    /\ documents[find_one(documents, d)].created_by = u

\* C2: Submit by the creator on a Document that its find_one returns as a
\* draft is not refused, and its update_one sets the status to under_control,
\* appends one "submitted_for_control" entry and answers 200; Submit on a
\* Document that its find_one returns with another status is refused, with
\* 400 when the caller is the creator: nothing is stored and the request
\* awaits no store call.
C2_Submit ==
    [][/\ \A u \in DocumentWriters, d \in DocumentIds :
            submit_document_find_one(u, d) =>
                LET i == find_one(documents, d)
                IN  /\ (IsCreator(u, d) /\ documents[i].status = "draft") =>
                            \E r \in requests' \ requests :
                                /\ r.op = "submit_document"
                                /\ r.user = u
                                /\ r.args.document_id = d
                    /\ (i # 0 /\ documents[i].status # "draft") =>
                            /\ resp'.op = "submit_document"
                            /\ resp'.code # HTTP_200_OK
                            /\ IsCreator(u, d) => resp'.code = HTTP_400_BAD_REQUEST
                            /\ UNCHANGED <<store, requests>>
       /\ \A r \in requests :
            Applies(r, "submit_document", "documents.update_one") =>
                LET i == find_one(documents, r.args.document_id)
                IN  /\ r.found.status = "draft"
                    /\ r.found.created_by = r.user
                    /\ resp' = [op |-> "submit_document", code |-> HTTP_200_OK]
                    /\ documents'[i].status = "under_control"
                    /\ AppendsOne(documents[i].history, documents'[i].history)
                    /\ Last(documents'[i].history).action = "submitted_for_control"
                    /\ Last(documents'[i].history).user_id = r.user]_vars

\* C2 witness: a Document was submitted once, and a second Submit was refused
\* with 400
C2_Witness ==
    /\ resp = [op |-> "submit_document", code |-> HTTP_400_BAD_REQUEST]
    /\ \E i \in 1..Len(documents) :
          /\ documents[i].status = "under_control"
          /\ Len(documents[i].history) = 2
          /\ documents[i].history[2].action = "submitted_for_control"

\* C14: the update_one of an update_document called by a drafting agent is
\* applied only for a request whose find_one returned a draft that the caller
\* created.
C14_UpdatePermission ==
    [][\A r \in requests :
          (/\ Applies(r, "update_document", "documents.update_one")
           /\ role(r.user) = DRAFTING_AGENT) =>
              /\ r.found.created_by = r.user
              /\ r.found.status = "draft"]_vars

\* C19: the insert_one of a create_document stores one more Document, with
\* status draft, the caller as creator and a history of one "created" entry,
\* and answers 200; with a template id that does not resolve, a drafting
\* agent is answered 404, no Document is stored and the request awaits no
\* store call.
C19_CreateDocument ==
    [][/\ \A r \in requests :
            Applies(r, "create_document", "documents.insert_one") =>
                /\ resp' = [op |-> "create_document", code |-> HTTP_200_OK]
                /\ AppendsOne(documents, documents')
                /\ LET d == Last(documents')
                   IN  /\ d.status = "draft"
                       /\ d.template_id = r.args.document_data.template_id
                       /\ d.created_by = r.user
                       /\ role(d.created_by) = DRAFTING_AGENT
                       /\ Len(d.history) = 1
                       /\ d.history[1].action = "created"
                       /\ d.history[1].user_id = d.created_by
       /\ \A u \in DocumentWriters, data \in DocumentCreates :
            (data.template_id \notin StoredTemplateIds /\ create_document_find_one(u, data)) =>
                Refused("create_document", HTTP_404_NOT_FOUND)]_vars

\* C19 witness: a Document created by da1 is stored as a draft with one
\* "created" entry, and a create_document with an unknown template was just
\* answered 404
C19_Witness ==
    /\ resp = [op |-> "create_document", code |-> HTTP_404_NOT_FOUND]
    /\ Len(documents) = 1
    /\ documents[1].status = "draft"
    /\ documents[1].created_by = "da1"
    /\ Len(documents[1].history) = 1
    /\ documents[1].history[1].action = "created"

\* the positions of the "submitted_for_control" entries of a history
SubmittedEntries(history) ==
    {k \in 1..Len(history) : history[k].action = "submitted_for_control"}

\* C33: the history of a Document holds at most one "submitted_for_control"
\* entry, whatever the order in which the steps of the submit requests run.
C33_SubmittedOnce ==
    \A i \in 1..Len(documents) :
        Cardinality(SubmittedEntries(documents[i].history)) <= 1

\* the fields of a Document a DocumentUpdate can carry
UpdatableFields == {"title", "content", "status", "assigned_to"}

\* C25: the update_one of an update_document sets the fields the payload
\* carries to the payload's values, leaves every other field but updated_at
\* and history as it was, and appends one "updated" entry, also when the
\* payload carries no field; the request is then answered 200.
C25_UpdateFrame ==
    [][\A r \in requests :
          /\ Applies(r, "update_document", "documents.update_one") =>
                LET i == find_one(documents, r.args.document_id)
                    upd == r.args.update_data
                    old == documents[i]
                    new == documents'[i]
                IN  /\ DOMAIN new = DOMAIN old
                    /\ \A f \in DOMAIN old \ {"updated_at", "history"} :
                          IF f \in UpdatableFields /\ upd[f] # None
                          THEN IF f = "assigned_to" THEN new[f] = upd[f]
                               ELSE new[f] = upd[f][1]
                          ELSE new[f] = old[f]
                    /\ AppendsOne(old.history, new.history)
                    /\ Last(new.history).action = "updated"
                    /\ Len(documents') = Len(documents)
                    /\ \A j \in 1..Len(documents) : j # i => documents'[j] = documents[j]
          /\ Applies(r, "update_document", "documents.find_one") =>
                resp'.code = HTTP_200_OK]_vars

\* C25 witness: an update_document with an empty payload left the fields of a
\* draft as created and appended an "updated" entry
C25_Witness ==
    /\ resp.op = "update_document"
    /\ resp.code = HTTP_200_OK
    /\ \E i \in 1..Len(documents) :
          /\ Len(documents[i].history) = 2
          /\ documents[i].history[2].action = "updated"
          /\ DOMAIN documents[i].history[2].details = {"updated_at"}
          /\ documents[i].title = "Rapport"
          /\ documents[i].status = "draft"
          /\ documents[i].assigned_to = None

(***************************************************************************)
(* Read properties of the Documents (SpecDocumentAccess).                  *)
(***************************************************************************)
\* the List visibility rule of a control officer
VisibleToOfficer(u, doc) ==
    doc.status = "under_control" \/ doc.assigned_to = Some(u)

\* C16: get_document and download_document_pdf refuse with 403 a drafting
\* agent who did not create the Document, and answer 200 to a control officer
\* only for a Document that is under_control or assigned to that officer.
C16_ViewPermission ==
    [][((Answers("get_document") \/ Answers("download_document_pdf"))
            /\ find_one(documents, resp'.id) # 0) =>
          LET doc == documents[find_one(documents, resp'.id)]
          IN  /\ (role(resp'.user) = DRAFTING_AGENT /\ doc.created_by # resp'.user) =>
                      resp'.code = HTTP_403_FORBIDDEN
              /\ (role(resp'.user) = CONTROL_OFFICER /\ resp'.code = HTTP_200_OK) =>
                      VisibleToOfficer(resp'.user, doc)]_vars

\* the Documents a List by u is specified to return
ListedDocuments(u) ==
    IF role(u) = DRAFTING_AGENT
    THEN {i \in 1..Len(documents) : documents[i].created_by = u}
    ELSE IF role(u) = CONTROL_OFFICER
    THEN {i \in 1..Len(documents) : VisibleToOfficer(u, documents[i])}
    ELSE 1..Len(documents)

\* C17: get_documents returns exactly the Documents created by the caller to
\* a drafting agent, exactly the Documents that are under_control or assigned
\* to the caller to a control officer, and every Document to a validation
\* officer or the management administrator.
C17_ListDocuments ==
    [][Answers("get_documents") =>
          /\ resp'.code = HTTP_200_OK
          /\ Len(resp'.body) = Cardinality(ListedDocuments(resp'.user))
          /\ {resp'.body[k] : k \in 1..Len(resp'.body)}
                = {documents[i] : i \in ListedDocuments(resp'.user)}]_vars

\* C17 witness: the officer co2, who is nobody's assignee, lists the Document
\* da1 created and submitted
C17_Witness ==
    /\ resp.op = "get_documents"
    /\ resp.user = "co2"
    /\ Len(resp.body) = 1
    /\ resp.body[1].created_by = "da1"
    /\ resp.body[1].status = "under_control"
    /\ resp.body[1].assigned_to = None

(***************************************************************************)
(* Template properties (SpecTemplates).                                    *)
(***************************************************************************)
\* the Documents that reference the template
ReferencingDocuments(template_id) ==
    {i \in 1..Len(documents) : documents[i].template_id = template_id}

\* C30: delete_template by a caller whose role it admits is refused with 400
\* when its count_documents finds a Document that references the template,
\* and the template stays stored; for a template id that no stored template
\* has, it is answered 404, at the step that answers it: the count_documents
\* step when that step awaits no store call, the delete_one otherwise.
C30_DeleteTemplate ==
    [][/\ \A u \in TemplateActors, t \in TemplateIds :
            (/\ require_role(u, {MOA, VALIDATION_OFFICER})
             /\ delete_template_count_documents(u, t)) =>
                /\ (t \in StoredTemplateIds /\ ReferencingDocuments(t) # {}) =>
                        Refused("delete_template", HTTP_400_BAD_REQUEST)
                /\ (t \notin StoredTemplateIds /\ requests' = requests) =>
                        Refused("delete_template", HTTP_404_NOT_FOUND)
       /\ \A r \in requests :
            (/\ Applies(r, "delete_template", "templates.delete_one")
             /\ r.args.template_id \notin StoredTemplateIds) =>
                /\ resp' = [op |-> "delete_template", code |-> HTTP_404_NOT_FOUND]
                /\ UNCHANGED store]_vars

\* C34: every stored Document references a stored template, whatever the
\* order in which the steps of create_document and delete_template run.
C34_TemplateOfDocumentStored ==
    \A i \in 1..Len(documents) : documents[i].template_id \in StoredTemplateIds

(***************************************************************************)
(* Properties of the two workflows together (SpecWorkflows, SpecRoles).    *)
(***************************************************************************)
\* the history of the entity at position i of a collection, empty when the
\* entity is not stored
HistoryAt(coll, i) == IF i <= Len(coll) THEN coll[i].history ELSE <<>>

\* the positions whose history is one entry longer in new than in old, the
\* old entries kept in place
Grown(old, new) ==
    {i \in 1..Len(new) : AppendsOne(HistoryAt(old, i), HistoryAt(new, i))}

\* no entity is removed and no position outside grown has another history
OthersKept(old, new, grown) ==
    /\ Len(new) >= Len(old)
    /\ \A i \in (1..Len(new)) \ grown : HistoryAt(new, i) = HistoryAt(old, i)

ControlOperations ==
    {"create_control", "update_compliance_checks", "update_non_compliance",
     "declarant_validation"}

DocumentOperations == {"create_document", "update_document", "submit_document"}

\* the store calls that write a Control or a Document
EntityWrites ==
    {"controls.insert_one", "controls.update_one",
     "documents.insert_one", "documents.update_one"}

\* the find_one that follows the update_one of a handler that returns the
\* updated entity
TrailingFinds == {"controls.find_one", "documents.find_one"}

\* the requests of the operations whose awaited store call, one of pcs, is
\* applied by the step
Applied(operations, pcs) ==
    {r \in requests \ requests' : r.op \in operations /\ r.pc \in pcs}

\* C13: the insert_one or update_one of a create, update or submit of a
\* Document, and of a create_control, update_compliance_checks,
\* update_non_compliance or declarant_validation, makes the history of one
\* entity of its collection exactly one entry longer, the old entries kept in
\* place as a prefix, and changes no other history; it is the only store call
\* of its request that changes a history, and the request is answered 200
\* after it.  Every other step, those that answer with an error included,
\* changes no history.
C13_AuditAppendOnly ==
    [][LET gc == Grown(controls, controls')
           gd == Grown(documents, documents')
       IN  /\ OthersKept(controls, controls', gc)
           /\ OthersKept(documents, documents', gd)
           /\ IF Applied(ControlOperations, EntityWrites) # {}
              THEN Cardinality(gc) = 1 /\ gd = {}
              ELSE IF Applied(DocumentOperations, EntityWrites) # {}
              THEN Cardinality(gd) = 1 /\ gc = {}
              ELSE gc = {} /\ gd = {}
           /\ \A r \in Applied(ControlOperations \cup DocumentOperations, EntityWrites) :
                 \/ resp'.op = r.op /\ resp'.code = HTTP_200_OK /\ requests' = requests \ {r}
                 \/ \E q \in requests' \ requests : q.op = r.op /\ q.pc \in TrailingFinds
           /\ \A r \in Applied(ControlOperations \cup DocumentOperations, TrailingFinds) :
                 resp'.op = r.op /\ resp'.code = HTTP_200_OK]_vars

\* C13 witness: three successful operations on a Control left three history
\* entries in the order of the calls
C13_Witness ==
    /\ resp = [op |-> "declarant_validation", code |-> HTTP_200_OK]
    /\ \E i \in 1..Len(controls) :
          /\ Len(controls[i].history) = 3
          /\ controls[i].history[1].action = "control_initiated"
          /\ controls[i].history[2].action = "certificate_generated"
          /\ controls[i].history[3].action = "customs_fine_initiated"

\* the step is the first one of a Control write handler called by u
ControlCallBy(u) ==
    \/ \E d \in DeclarationIds : create_control_start(u, d)
    \/ \E c \in ControlIds :
          \/ update_compliance_checks_find_one(u, c, one_non_compliant)
          \/ update_non_compliance_find_one(u, c, undervaluation)
          \/ declarant_validation_find_one(u, c,
                [acknowledged |-> TRUE, fine_decision |-> "customs_fine"])

\* the step is the first one of create_document or submit_document called by u
DocumentCallBy(u) ==
    \/ create_document_find_one(u, report)
    \/ \E d \in DocumentIds : submit_document_find_one(u, d)

\* C15: a Control write handler called by a drafting agent or by the
\* management administrator, and create_document or submit_document called by
\* a user who is not a drafting agent, answer 403, change no Control,
\* Declaration, fine or Document and await no store call; no request of
\* such a caller awaits a store call of these handlers.
C15_RoleChecks ==
    [][/\ \A u \in WorkflowControlActors :
            (role(u) \in {DRAFTING_AGENT, MOA} /\ ControlCallBy(u)) =>
                /\ resp'.op \in ControlOperations
                /\ resp'.code = HTTP_403_FORBIDDEN
                /\ UNCHANGED <<store, requests>>
       /\ \A u \in WorkflowDocumentActors :
            (role(u) # DRAFTING_AGENT /\ DocumentCallBy(u)) =>
                /\ resp'.op \in {"create_document", "submit_document"}
                /\ resp'.code = HTTP_403_FORBIDDEN
                /\ UNCHANGED <<store, requests>>
       /\ \A r \in requests' :
            /\ r.op \in ControlOperations => role(r.user) \notin {DRAFTING_AGENT, MOA}
            /\ r.op \in {"create_document", "submit_document"} =>
                    role(r.user) = DRAFTING_AGENT]_vars

\* C15 witness: a declarant_validation was refused with 403 on a Control that
\* has its certificate and is still not validated
C15_Witness ==
    /\ resp = [op |-> "declarant_validation", code |-> HTTP_403_FORBIDDEN]
    /\ \E i \in 1..Len(controls) :
          /\ controls[i].status = "certificate_generated"
          /\ ~controls[i].declarant_acknowledged
    /\ fines = <<>>

\* the identity and ownership fields of a Control and of a Document
ControlIdentity(control) ==
    <<control.id, control.declaration_id, control.control_officer_id,
      control.control_officer_name>>
DocumentIdentity(doc) ==
    <<doc.id, doc.created_by, doc.created_by_name, doc.template_id, doc.document_type>>

\* C36: no step removes a Control or a Document, or changes a Control's id,
\* declaration_id, control_officer_id or control_officer_name, or a Document's
\* id, created_by, created_by_name, template_id or document_type.
C36_IdentityKept ==
    [][/\ Len(controls') >= Len(controls)
       /\ \A i \in 1..Len(controls) :
              ControlIdentity(controls'[i]) = ControlIdentity(controls[i])
       /\ Len(documents') >= Len(documents)
       /\ \A i \in 1..Len(documents) :
              DocumentIdentity(documents'[i]) = DocumentIdentity(documents[i])]_vars

\* C36 witness: a Control was written twice after its creation and still
\* carries the id it was stored under, its declaration id and the officer of
\* its first history entry
C36_Witness ==
    \E i \in 1..Len(controls) :
        /\ Len(controls[i].history) = 3
        /\ controls[i].history[1].action = "control_initiated"
        /\ controls[i].history[1].user_id = controls[i].control_officer_id
        /\ controls[i].control_officer_name = full_name(controls[i].control_officer_id)
        /\ controls[i].declaration_id = "D1"
        /\ controls[i].id = i

(***************************************************************************)
(* Lookups and reads (SpecLookups, SpecReads).                             *)
(***************************************************************************)
\* no document of the collection has this id
Unknown(coll, id) == \A i \in 1..Len(coll) : coll[i].id # id

\* the step answered 404 and changed no collection
NotFoundUnchanged ==
    /\ resp'.code = HTTP_404_NOT_FOUND
    /\ UNCHANGED <<controls, declarations, fines, documents, templates>>

\* C38: update_document, submit_document, get_document and
\* download_document_pdf on an id that no Document has, and get_control,
\* update_compliance_checks, update_non_compliance and declarant_validation on
\* an id that no Control has, called by a user whose role the handler admits,
\* answer 404, change no collection and await no store call; so does
\* update_non_compliance when its find_one of the Declaration finds none.
C38_UnknownId ==
    [][/\ (Answers("get_document") \/ Answers("download_document_pdf")) =>
            (Unknown(documents, resp'.id) => NotFoundUnchanged)
       /\ Answers("get_control") =>
            (Unknown(controls, resp'.id) => NotFoundUnchanged)
       /\ \A d \in LookupDocumentIds :
            Unknown(documents, d) =>
                /\ update_document_find_one("da1", d,
                        [no_update EXCEPT !.title = Some("Rapport v2")]) =>
                        Refused("update_document", HTTP_404_NOT_FOUND)
                /\ submit_document_find_one("da1", d) =>
                        Refused("submit_document", HTTP_404_NOT_FOUND)
                /\ download_document_pdf_find_one("da1", d) =>
                        Refused("download_document_pdf", HTTP_404_NOT_FOUND)
       /\ \A c \in LookupControlIds :
            Unknown(controls, c) =>
                /\ update_compliance_checks_find_one("co1", c, all_checks("compliant")) =>
                        Refused("update_compliance_checks", HTTP_404_NOT_FOUND)
                /\ update_non_compliance_find_one("co1", c, undervaluation) =>
                        Refused("update_non_compliance", HTTP_404_NOT_FOUND)
                /\ declarant_validation_find_one("co1", c,
                        [acknowledged |-> TRUE, fine_decision |-> "customs_fine"]) =>
                        Refused("declarant_validation", HTTP_404_NOT_FOUND)
       /\ \A r \in requests :
            (/\ Applies(r, "update_non_compliance", "declarations.find_one")
             /\ find_declaration(r.found.declaration_id) = 0) =>
                /\ NotFoundUnchanged
                /\ requests' = requests \ {r}]_vars

\* C38 witness: a Control is stored and a declarant validation addressed to
\* another id was answered 404, the stored Control still as
\* update_non_compliance left it
C38_Witness ==
    /\ resp = [op |-> "declarant_validation", code |-> HTTP_404_NOT_FOUND]
    /\ Len(controls) = 1
    /\ Last(controls[1].history).action = "certificate_generated"
    /\ fines = <<>>

\* the handlers that only read
ReadOperations ==
    {"get_document", "get_documents", "download_document_pdf", "get_control",
     "get_controls", "download_certificate", "download_payment_notice"}

\* the step is one of a handler that only reads: it answers one, or applies
\* the find_one one of them awaits
ReadStep ==
    \/ \E op \in ReadOperations : Answers(op)
    \/ \E r \in (requests \ requests') \cup (requests' \ requests) : r.op \in ReadOperations

\* C39: a step of get_document, get_documents, download_document_pdf,
\* get_control, get_controls, download_certificate or download_payment_notice
\* leaves every Document, Control, Declaration and fine as it was, histories
\* included, whatever its status code.
C39_ReadsChangeNothing ==
    [][ReadStep =>
          /\ documents' = documents
          /\ controls' = controls
          /\ declarations' = declarations
          /\ fines' = fines]_vars

\* C39 witness: a Document was viewed by its creator with answer 200 and its
\* history is still its "created" entry alone
C39_Witness ==
    /\ resp.op = "get_document"
    /\ resp.code = HTTP_200_OK
    /\ find_one(documents, resp.id) # 0
    /\ Len(documents[find_one(documents, resp.id)].history) = 1
    /\ resp.user = documents[find_one(documents, resp.id)].created_by

====
